---- MODULE Spec2Model ----
(***************************************************************************)
(* sunbeam.core.juju: the convergence wait of JujuHelper.                  *)
(*                                                                         *)
(*   wait_until_desired_status   spawns one watch task per application,    *)
(*                               awaits them under one timeout             *)
(*   _wait_until_status_coroutine  the watch task: fetch the status of its *)
(*                               application, evaluate it, sleep, repeat   *)
(*                                                                         *)
(* The evaluation of one application status against the desired status is *)
(* the operator desired_status_achieved; EvalSpec applies it to inputs     *)
(* drawn from bounded sets, Spec runs one wait_until_desired_status call.  *)
(* OrderSpec is Spec with the snapshots of the remote status numbered,      *)
(* MessageSpec is EvalSpec with status messages among the inputs,          *)
(* HelperSpec runs one call of another operation of the helper             *)
(* (wait_application_ready, wait_until_active, get_model_status,           *)
(* JujuActionHelper.get_unit), UpdaterSpec runs the status updater         *)
(* (tick_status and the reconnection loop of _model_ticker).               *)
(*                                                                         *)
(* Names (applications, units) are tuples of characters, so that Python's  *)
(* substring test `app in unit` is computed and not assumed.               *)
(***************************************************************************)
EXTENDS Integers, Sequences, FiniteSets, TLC

VARIABLES
    \* ---- the evaluation of one status against one desired status
    evaluation,
    \* ---- the arguments of one wait_until_desired_status call
    call,
    \* ---- the waiter
    pc, outcome, model_connectors, get_model_calls, excs, timed_out,
    \* ---- the watch tasks (sequences indexed like apps)
    tasks, queue,
    \* ---- the remote status source
    remote, get_status_calls, published,
    \* ---- one call of another operation of the helper
    helper,
    \* ---- the status updater of one model
    updater,
    \* ---- the statuses the deployment went through during one call
    history,
    \* ---- one OperationViewer of the maintenance feature
    viewer,
    \* ---- one run of a maintenance command
    command

vars == <<evaluation, call, pc, outcome, model_connectors, get_model_calls,
          excs, timed_out, tasks, queue, remote, get_status_calls, published,
          helper, updater, history, viewer, command>>

waiter_vars == <<call, pc, outcome, model_connectors, get_model_calls,
                 excs, timed_out, tasks, queue, remote, get_status_calls,
                 published, helper, history, viewer, command>>

\* the variables of the Juju helper, which the maintenance feature's viewer
\* and commands leave alone
juju_vars == <<evaluation, call, pc, outcome, model_connectors,
               get_model_calls, excs, timed_out, tasks, queue, remote,
               get_status_calls, published, helper, updater, history>>

----------------------------------------------------------------------------
\* Bounds of the model.

\* longest unit list handed to the evaluation
MaxListLen == 2
\* most get_status calls of one wait (a task's first call is always made)
MaxGetStatusCalls == 4
\* most changes of the remote status while one wait is in progress
MaxPublishes == 1

----------------------------------------------------------------------------
\* Python values.

None == [none |-> TRUE]
Some(v) == [none |-> FALSE, val |-> v]

NoStatus == "None"

RECURSIVE SeqsUpTo(_, _)
SeqsUpTo(S, n) ==
    IF n = 0 THEN {<<>>}
    ELSE LET shorter == SeqsUpTo(S, n - 1)
         IN  shorter \cup {Append(s, x) : s \in {t \in shorter : Len(t) = n - 1}, x \in S}

Range(s) == {s[i] : i \in 1..Len(s)}

\* Python `sub in s` on strings: sub occurs in s as a contiguous run
Contains(sub, s) ==
    \E i \in 0..(Len(s) - Len(sub)) : SubSeq(s, i + 1, i + Len(sub)) = sub

\* Python `x in lst`
InList(x, lst) == x \in Range(lst)

----------------------------------------------------------------------------
\* Names.

APP_C == <<"c">>
APP_MC == <<"m", "c">>
AppNames == {APP_C, APP_MC}

UnitName(app, n) == app \o <<"/", n>>

\* the units application APP_C may have, and every unit name a caller may pass
UnitsOfC == {UnitName(APP_C, "0"), UnitName(APP_C, "1")}
UnitNames == UnitsOfC \cup {UnitName(APP_MC, "0")}

WorkloadStatuses == {"active", "blocked"}
AgentStatuses == {"idle", "executing"}

----------------------------------------------------------------------------
\* The evaluation of one application status (juju.py 1175-1211).

\* `unit_list is None or name in unit_list`
InScope(name, unit_list) ==
    unit_list.none \/ InList(name, unit_list.val)

\* the workload statuses collected: of the application when it is a
\* subordinate, of the units in scope that report one when it is not
app_status_of(application, unit_list) ==
    IF application.subordinate_to # ""
    THEN IF application.status # NoStatus THEN {application.status} ELSE {}
    ELSE {application.units[n].workload_status :
            n \in {m \in DOMAIN application.units :
                     /\ InScope(m, unit_list)
                     /\ application.units[m].workload_status # NoStatus}}

\* the agent statuses collected (none for a subordinate)
agent_status_of(application, unit_list) ==
    IF application.subordinate_to # ""
    THEN {}
    ELSE {application.units[n].agent_status :
            n \in {m \in DOMAIN application.units :
                     /\ InScope(m, unit_list)
                     /\ application.units[m].agent_status # NoStatus}}

expected_unit_count(application, unit_list) ==
    IF unit_list.none THEN application.int_ ELSE Some(Len(unit_list.val))

unit_count(application, unit_list) ==
    IF unit_list.none
    THEN Cardinality(DOMAIN application.units)
    ELSE Cardinality({u \in DOMAIN application.units : InList(u, unit_list.val)})

unit_count_cond_skipped(application, unit_list) == TRUE

unit_count_cond(application, unit_list) ==
    \/ expected_unit_count(application, unit_list).none
    \/ expected_unit_count(application, unit_list).val = unit_count(application, unit_list)

\* expected_agent_status is None or a set; expected_status is a set
agent_cond(agent_status, expected_agent_status) ==
    \/ expected_agent_status.none
    \/ agent_status \subseteq expected_agent_status.val

\* the condition of the `if` at 1203-1211
desired_status_achieved(application, unit_list, expected_status, expected_agent_status) ==
    /\ unit_count_cond(application, unit_list)
    /\ Cardinality(app_status_of(application, unit_list)) > 0
    /\ app_status_of(application, unit_list) \subseteq expected_status
    /\ agent_cond(agent_status_of(application, unit_list), expected_agent_status)

----------------------------------------------------------------------------
\* The inputs of the evaluation.

UnitStatuses ==
    [workload_status : WorkloadStatuses \cup {NoStatus},
     agent_status : AgentStatuses] \cup
    {[workload_status |-> "active", agent_status |-> NoStatus]}

UnitDicts == UNION {[names -> UnitStatuses] : names \in SUBSET UnitsOfC}

ApplicationStatuses ==
    [subordinate_to : {"", "app0"},
     status : WorkloadStatuses \cup {NoStatus},
     int_ : {None, Some(1), Some(2)},
     units : UnitDicts]

UnitLists == {None} \cup {Some(l) : l \in SeqsUpTo(UnitNames, MaxListLen)}

ExpectedStatuses == SUBSET WorkloadStatuses
ExpectedAgentStatuses == {None} \cup {Some(s) : s \in SUBSET AgentStatuses}

NoEvaluation == [pc |-> "none"]
NoHelper == [pc |-> "none"]
NoUpdater == [pc |-> "none"]
NoHistory == [pc |-> "none"]
NoViewer == [pc |-> "none"]
NoCommand == [pc |-> "none"]

EvalInit ==
    /\ evaluation \in
         [pc : {"start"},
          application : ApplicationStatuses,
          unit_list : UnitLists,
          expected_status : ExpectedStatuses,
          expected_agent_status : ExpectedAgentStatuses,
          result : {FALSE}]
    /\ call = [none |-> TRUE]
    /\ pc = "idle"
    /\ outcome = None
    /\ model_connectors = <<>>
    /\ get_model_calls = 0
    /\ excs = <<>>
    /\ timed_out = FALSE
    /\ tasks = <<>>
    /\ queue = <<>>
    /\ remote = <<>>
    /\ get_status_calls = 0
    /\ published = 0
    /\ helper = NoHelper
    /\ updater = NoUpdater
    /\ history = NoHistory
    /\ viewer = NoViewer
    /\ command = NoCommand

Evaluate ==
    /\ evaluation.pc = "start"
    /\ evaluation' =
         [evaluation EXCEPT
            !.pc = "done",
            !.result = desired_status_achieved(
                           evaluation.application, evaluation.unit_list,
                           evaluation.expected_status,
                           evaluation.expected_agent_status)]
    /\ UNCHANGED waiter_vars
    /\ UNCHANGED updater

EvalNext == Evaluate

EvalSpec == EvalInit /\ [][EvalNext]_vars

----------------------------------------------------------------------------
\* The evaluation, with the status message of each unit's workload status
\* and a set of expected messages among its inputs.

StatusMessages == {"Ready", "Error"}

ExpectedStatusMessages == {None, Some({"Ready"})}

MessageInit ==
    /\ evaluation \in
         [pc : {"start"},
          application : ApplicationStatuses,
          unit_list : {l \in UnitLists : l.none \/ Len(l.val) <= 1},
          expected_status : ExpectedStatuses,
          expected_agent_status : {None, Some({"idle"})},
          expected_workload_status_message : ExpectedStatusMessages,
          info : [UnitsOfC -> StatusMessages],
          result : {FALSE}]
    /\ call = None
    /\ pc = "idle"
    /\ outcome = None
    /\ model_connectors = <<>>
    /\ get_model_calls = 0
    /\ excs = <<>>
    /\ timed_out = FALSE
    /\ tasks = <<>>
    /\ queue = <<>>
    /\ remote = <<>>
    /\ get_status_calls = 0
    /\ published = 0
    /\ helper = NoHelper
    /\ updater = NoUpdater
    /\ history = NoHistory
    /\ viewer = NoViewer
    /\ command = NoCommand

MessageNext == Evaluate

MessageSpec == MessageInit /\ [][MessageNext]_vars

----------------------------------------------------------------------------
\* The remote status source: what model.get_status answers.

Absent == [absent |-> TRUE]
Present(application) == [absent |-> FALSE, application |-> application]

\* one unit app/0 with the given workload status, agent idle
OneUnitApplication(app, workload) ==
    [subordinate_to |-> "",
     status |-> workload,
     int_ |-> Some(1),
     units |-> [n \in {UnitName(app, "0")} |->
                  [workload_status |-> workload, agent_status |-> "idle"]]]

RemoteStatuses(app) ==
    {Absent} \cup {Present(OneUnitApplication(app, w)) : w \in WorkloadStatuses}

\* the snapshots of the remote status are numbered as they are produced:
\* published is the number of the current one. get_status answers with the
\* current snapshot, whatever the caller received before
answered_from_first_reply(current, received) ==
    IF received > 0 THEN 0 ELSE current

answered(current, received) == current

\* model.get_status([app]): the applications of the filter the model has
get_status(filter) ==
    [applications |->
       [a \in {x \in Range(filter) : ~remote[x].absent} |-> remote[a].application]]

----------------------------------------------------------------------------
\* The arguments of wait_until_desired_status (juju.py 1222-1231).

MODEL == "control-plane"

\* most applications a call names
MaxApps == 2

\* the lists of applications a call names: <<>>, <<c>>, <<c, mc>>, <<c, mc, c>>, ...
AppList(n) == [i \in 1..n |-> IF i % 2 = 1 THEN APP_C ELSE APP_MC]
AppLists == {AppList(n) : n \in 0..MaxApps}

UnitArgs ==
    {None,
     Some(<<UnitName(APP_C, "0")>>),
     Some(<<UnitName(APP_C, "0"), UnitName(APP_MC, "0")>>)}

QueueArgs == {None} \cup {Some([maxsize |-> n]) : n \in 0..MaxApps}

Calls ==
    [model : {MODEL},
     apps : AppLists,
     units : UnitArgs,
     status : {None},
     agent_status : {None},
     queue : QueueArgs]

\* 1241-1244
wl_status(status) == IF status.none THEN {"active"} ELSE Range(status.val)

\* 1245: queue is not None and queue.maxsize < len(apps)
QueueCheckMissing(q, apps) == FALSE

QueueTooSmallOffByOne(q, apps) == (~q.none) /\ q.val.maxsize < Len(apps) - 1

QueueTooSmall(q, apps) == (~q.none) /\ q.val.maxsize < Len(apps)

\* 1252-1254: None if units is None else [unit for unit in units if app in unit]
unit_list_for(app, units) ==
    IF units.none THEN None
    ELSE Some(SelectSeq(units.val, LAMBDA unit : Contains(app, unit)))

----------------------------------------------------------------------------
\* The watch tasks (asyncio.Task running _wait_until_status_coroutine).
\*   pending     created, its first step not run
\*   get_status  suspended in `await model.get_status([app])`
\*   sleep       suspended in `await asyncio.sleep(15)`
\*   satisfied   returned at 1217
\*   stopped     returned after `except asyncio.CancelledError` (1219-1220)
\*   failed      ended by an exception (task.exception() is set)
\*   cancelled   ended by CancelledError (task.cancelled())

Running == {"pending", "get_status", "sleep"}
Terminal == {"satisfied", "stopped", "failed", "cancelled"}

NoException == [type |-> "None"]
Exception(type, about) == [type |-> type, about |-> about]

NewTask(app, units) ==
    [app |-> app,
     unit_list |-> unit_list_for(app, units),
     state |-> "pending",
     must_cancel |-> FALSE,
     exc |-> NoException,
     polls |-> 0,
     received |-> 0,
     snap |-> "none",
     version |-> 0,
     posts |-> 0]

\* 1250-1269
spawn(c) == [i \in 1..Len(c.apps) |-> NewTask(c.apps[i], c.units)]

done(t) == t.state \in Terminal

AllDone(ts) == \A i \in 1..Len(ts) : done(ts[i])

\* Task.cancel(): a request, and none on a task that is done
cancel(t) == IF done(t) THEN t ELSE [t EXCEPT !.must_cancel = TRUE]

cancel_all(ts) == [i \in 1..Len(ts) |-> cancel(ts[i])]

\* where CancelledError thrown into the coroutine ends it: at a suspension
\* point it is inside the try of 1166 and caught at 1219; thrown before the
\* first step it is outside and the task ends cancelled
cancelled_uncaught(state) == "cancelled"

cancelled_at(state) == IF state = "pending" THEN "cancelled" ELSE "stopped"

\* one pass of the loop over a received status (1169-1218)
on_status_missing_tolerated(app, status, unit_list, expected_status, expected_agent_status) ==
    IF app \notin DOMAIN status.applications
    THEN "sleep"
    ELSE IF desired_status_achieved(status.applications[app], unit_list,
                                    expected_status, expected_agent_status)
         THEN "return"
         ELSE "sleep"

on_status_return_first(app, status, unit_list, expected_status, expected_agent_status) ==
    IF app \notin DOMAIN status.applications
    THEN "ValueError"
    ELSE "return"

on_status(app, status, unit_list, expected_status, expected_agent_status) ==
    IF app \notin DOMAIN status.applications
    THEN "ValueError"
    ELSE IF desired_status_achieved(status.applications[app], unit_list,
                                    expected_status, expected_agent_status)
         THEN "return"
         ELSE "sleep"

\* asyncio.Queue.full() and put_nowait
full(q, maxsize) == maxsize > 0 /\ Len(q) >= maxsize

\* the task's first step, or its wake from sleep: call get_status and suspend
IssueGetStatus(i) ==
    /\ tasks' = [tasks EXCEPT ![i].state = "get_status",
                              ![i].polls = tasks[i].polls + 1]
    /\ get_status_calls' = get_status_calls + 1

TaskStart(i) ==
    /\ tasks[i].state = "pending"
    /\ ~tasks[i].must_cancel
    /\ IssueGetStatus(i)
    /\ UNCHANGED <<evaluation, call, pc, outcome, model_connectors,
                   get_model_calls, excs, timed_out, queue, remote,
                   published, helper, updater, history, viewer, command>>

SleepReturns(i) ==
    /\ tasks[i].state = "sleep"
    /\ ~tasks[i].must_cancel
    /\ get_status_calls < MaxGetStatusCalls
    /\ IssueGetStatus(i)
    /\ UNCHANGED <<evaluation, call, pc, outcome, model_connectors,
                   get_model_calls, excs, timed_out, queue, remote,
                   published, helper, updater, history, viewer, command>>

\* get_status answers: 1169-1218
GetStatusReturns(i) ==
    /\ tasks[i].state = "get_status"
    /\ ~tasks[i].must_cancel
    /\ LET t == tasks[i]
           status == get_status(<<t.app>>)
           step == on_status(t.app, status, t.unit_list,
                             wl_status(call.status), call.agent_status)
           seen == [t EXCEPT !.received = t.received + 1,
                             !.version = answered(published, t.received),
                             !.snap = IF t.app \in DOMAIN status.applications
                                      THEN "present" ELSE "absent"]
       IN  CASE step = "ValueError" ->
                  /\ tasks' = [tasks EXCEPT ![i] =
                                 [seen EXCEPT !.state = "failed",
                                              !.exc = Exception("ValueError", t.app)]]
                  /\ UNCHANGED queue
             [] step = "sleep" ->
                  /\ tasks' = [tasks EXCEPT ![i] = [seen EXCEPT !.state = "sleep"]]
                  /\ UNCHANGED queue
             [] step = "return" /\ call.queue.none ->
                  /\ tasks' = [tasks EXCEPT ![i] = [seen EXCEPT !.state = "satisfied"]]
                  /\ UNCHANGED queue
             [] step = "return" /\ ~call.queue.none
                                /\ ~full(queue, call.queue.val.maxsize) ->
                  /\ tasks' = [tasks EXCEPT ![i] =
                                 [seen EXCEPT !.state = "satisfied",
                                              !.posts = t.posts + 1]]
                  /\ queue' = Append(queue, t.app)
             [] step = "return" /\ ~call.queue.none
                                /\ full(queue, call.queue.val.maxsize) ->
                  /\ tasks' = [tasks EXCEPT ![i] =
                                 [seen EXCEPT !.state = "failed",
                                              !.exc = Exception("QueueFull", t.app)]]
                  /\ UNCHANGED queue
    /\ UNCHANGED <<evaluation, call, pc, outcome, model_connectors,
                   get_model_calls, excs, timed_out, remote, get_status_calls,
                   published, helper, updater, history, viewer, command>>

\* get_status raises (the connection closed): nothing in the task catches it
GetStatusRaises(i) ==
    /\ tasks[i].state = "get_status"
    /\ ~tasks[i].must_cancel
    /\ tasks' = [tasks EXCEPT ![i].state = "failed",
                              ![i].exc = Exception("ConnectionClosedError", tasks[i].app)]
    /\ UNCHANGED <<evaluation, call, pc, outcome, model_connectors,
                   get_model_calls, excs, timed_out, queue, remote, get_status_calls,
                   published, helper, updater, history, viewer, command>>

\* the step of a task whose cancellation was requested: CancelledError
CancelledErrorThrown(i) ==
    /\ tasks[i].state \in Running
    /\ tasks[i].must_cancel
    /\ tasks' = [tasks EXCEPT ![i].state = cancelled_at(tasks[i].state),
                              ![i].must_cancel = FALSE]
    /\ UNCHANGED <<evaluation, call, pc, outcome, model_connectors,
                   get_model_calls, excs, timed_out, queue, remote, get_status_calls,
                   published, helper, updater, history, viewer, command>>

----------------------------------------------------------------------------
\* The waiter: wait_until_desired_status (juju.py 1241-1296).

Raised(type, about) == Some([kind |-> "raised", type |-> type, about |-> about])
Returned == Some([kind |-> "returned"])

\* 1280-1290: the exceptions of the tasks that are done, not cancelled, and
\* ended by an exception, in task order
RECURSIVE collect(_)
collect(ts) ==
    IF ts = <<>> THEN <<>>
    ELSE LET t == Head(ts)
         IN  (IF done(t) /\ t.state # "cancelled" /\ t.exc # NoException
              THEN <<t.exc>> ELSE <<>>) \o collect(Tail(ts))

\* wait_for resumes the waiter, after a timeout or a cancellation, only when
\* the gather it cancelled is done: when every task is
settled_at_once(ts) == TRUE

settled(ts) == AllDone(ts)

\* what the call raises when wait_for raised TimeoutError: 1275-1278, the
\* exceptions collected by the finally are not looked at
on_timeout_prefer_task_errors(model, collected) ==
    IF collected # <<>> THEN Raised("JujuWaitException", [model |-> model, excs |-> collected])
    ELSE Raised("TimeoutException", [model |-> model])

on_timeout(model, collected) == Raised("TimeoutException", [model |-> model])

\* 1292-1296
on_gathered_ignoring_excs(model, collected) == Returned

on_gathered(model, collected) ==
    IF collected # <<>>
    THEN Raised("JujuWaitException", [model |-> model, excs |-> collected])
    ELSE Returned

\* 1245-1247: the check of the queue, then get_model is called
Call ==
    /\ pc = "idle"
    /\ IF QueueTooSmall(call.queue, call.apps)
       THEN /\ outcome' = Raised("ValueError", [model |-> call.model])
            /\ pc' = "done"
            /\ UNCHANGED get_model_calls
       ELSE /\ pc' = "get_model"
            /\ get_model_calls' = get_model_calls + 1
            /\ UNCHANGED outcome
    /\ UNCHANGED <<evaluation, call, model_connectors, excs, timed_out,
                   tasks, queue, remote, get_status_calls, published,
                   helper, updater, history, viewer, command>>

\* get_model answers (285-287): the tasks are created and wait_for begins
GetModelReturns ==
    /\ pc = "get_model"
    /\ model_connectors' =
         Append(model_connectors, [model |-> call.model, connected |-> TRUE])
    /\ tasks' = spawn(call)
    /\ pc' = "wait_for"
    /\ UNCHANGED <<evaluation, call, outcome, get_model_calls, excs, timed_out,
                   queue, remote, get_status_calls, published, helper,
                   updater, history, viewer, command>>

\* get_model raises (288-291)
GetModelRaises ==
    /\ pc = "get_model"
    /\ outcome' = Raised("ModelNotFoundException", [model |-> call.model])
    /\ pc' = "done"
    /\ UNCHANGED <<evaluation, call, model_connectors, get_model_calls, excs,
                   timed_out, tasks, queue, remote, get_status_calls,
                   published, helper, updater, history, viewer, command>>

\* the finally of 1279-1290, then what follows it
Finally(result) ==
    /\ tasks' = cancel_all(tasks)
    /\ excs' = collect(tasks)
    /\ outcome' = result
    /\ pc' = "disconnect"

\* 1272-1273: asyncio.gather(*tasks, return_exceptions=True) is done when
\* every task is, whatever the tasks ended by
gather_done_at_first_exception(ts) ==
    AllDone(ts) \/ \E i \in 1..Len(ts) : ts[i].state = "failed"

gather_done_never(ts) == FALSE

gather_done(ts) == AllDone(ts)

\* the gather is done within the timeout
Gathered ==
    /\ pc = "wait_for"
    /\ gather_done(tasks)
    /\ Finally(on_gathered(call.model, collect(tasks)))
    /\ UNCHANGED <<evaluation, call, model_connectors, get_model_calls,
                   timed_out, queue, remote, get_status_calls, published,
                   helper, updater, history, viewer, command>>

\* the timeout elapses with the gather not done: wait_for cancels it, which
\* cancels every task that is not done
Timeout ==
    /\ pc = "wait_for"
    /\ ~AllDone(tasks)
    /\ timed_out' = TRUE
    /\ tasks' = cancel_all(tasks)
    /\ pc' = "timing_out"
    /\ UNCHANGED <<evaluation, call, outcome, model_connectors, get_model_calls,
                   excs, queue, remote, get_status_calls, published,
                   helper, updater, history, viewer, command>>

\* wait_for raises TimeoutError: 1275-1278, then the finally
TimeoutRaised ==
    /\ pc = "timing_out"
    /\ settled(tasks)
    /\ Finally(on_timeout(call.model, collect(tasks)))
    /\ UNCHANGED <<evaluation, call, model_connectors, get_model_calls,
                   timed_out, queue, remote, get_status_calls, published,
                   helper, updater, history, viewer, command>>

\* the caller cancels the call while it waits
Cancel ==
    /\ pc = "wait_for"
    /\ ~AllDone(tasks)
    /\ tasks' = cancel_all(tasks)
    /\ pc' = "cancelling"
    /\ UNCHANGED <<evaluation, call, outcome, model_connectors, get_model_calls,
                   excs, timed_out, queue, remote, get_status_calls,
                   published, helper, updater, history, viewer, command>>

\* wait_for raises CancelledError: only the finally runs
CancelRaised ==
    /\ pc = "cancelling"
    /\ settled(tasks)
    /\ Finally(Raised("CancelledError", [model |-> call.model]))
    /\ UNCHANGED <<evaluation, call, model_connectors, get_model_calls,
                   timed_out, queue, remote, get_status_calls, published,
                   helper, updater, history, viewer, command>>

\* the exit of get_model_closing (307-308)
Disconnect ==
    /\ pc = "disconnect"
    /\ model_connectors' =
         [model_connectors EXCEPT ![Len(model_connectors)].connected = FALSE]
    /\ pc' = "done"
    /\ UNCHANGED <<evaluation, call, outcome, get_model_calls, excs, timed_out,
                   tasks, queue, remote, get_status_calls, published,
                   helper, updater, history, viewer, command>>

\* the deployment changes while the call is in progress
RemoteChanges ==
    /\ pc \in {"get_model", "wait_for"}
    /\ \E a \in Range(call.apps) : \E s \in RemoteStatuses(a) \ {remote[a]} :
         remote' = [remote EXCEPT ![a] = s]
    /\ UNCHANGED <<evaluation, call, pc, outcome, model_connectors,
                   get_model_calls, excs, timed_out, tasks, queue, get_status_calls,
                   published, helper, updater, history, viewer, command>>

\* the same change, the snapshots being numbered
Publish ==
    /\ pc \in {"get_model", "wait_for"}
    /\ published < MaxPublishes
    /\ \E a \in Range(call.apps) : \E s \in RemoteStatuses(a) \ {remote[a]} :
         remote' = [remote EXCEPT ![a] = s]
    /\ published' = published + 1
    /\ UNCHANGED <<evaluation, call, pc, outcome, model_connectors,
                   get_model_calls, excs, timed_out, tasks, queue, get_status_calls,
                   helper, updater, history, viewer, command>>

InitOf(calls) ==
    /\ evaluation = NoEvaluation
    /\ call \in calls
    /\ pc = "idle"
    /\ outcome = None
    /\ model_connectors = <<>>
    /\ get_model_calls = 0
    /\ excs = <<>>
    /\ timed_out = FALSE
    /\ tasks = <<>>
    /\ queue = <<>>
    /\ remote \in {r \in [AppNames -> UNION {RemoteStatuses(a) : a \in AppNames}] :
                     \A a \in AppNames :
                        /\ r[a] \in RemoteStatuses(a)
                        /\ a \notin Range(call.apps) => r[a] = Absent}
    /\ get_status_calls = 0
    /\ published = 0
    /\ helper = NoHelper
    /\ updater = NoUpdater
    /\ viewer = NoViewer
    /\ command = NoCommand

Init == InitOf(Calls) /\ history = NoHistory

\* the steps of the call and of its tasks
WaitNext ==
    \/ Call
    \/ GetModelReturns
    \/ GetModelRaises
    \/ Gathered
    \/ Timeout
    \/ TimeoutRaised
    \/ Cancel
    \/ CancelRaised
    \/ Disconnect
    \/ \E i \in 1..Len(tasks) : TaskStart(i)
    \/ \E i \in 1..Len(tasks) : SleepReturns(i)
    \/ \E i \in 1..Len(tasks) : GetStatusReturns(i)
    \/ \E i \in 1..Len(tasks) : GetStatusRaises(i)
    \/ \E i \in 1..Len(tasks) : CancelledErrorThrown(i)

Next == WaitNext \/ RemoteChanges

Spec == Init /\ [][Next]_vars

\* one call with no unit list and no queue, the snapshots of the remote
\* status being numbered
OrderInit ==
    /\ InitOf({c \in Calls : c.units = None /\ c.queue = None})
    /\ history = NoHistory

OrderNext == WaitNext \/ Publish

OrderSpec == OrderInit /\ [][OrderNext]_vars

\* 1203-1211 on the deployment itself: the application a of the call c is in
\* the desired status in the deployment r
in_desired_status(c, r, a) ==
    /\ ~r[a].absent
    /\ desired_status_achieved(r[a].application, unit_list_for(a, c.units),
                               wl_status(c.status), c.agent_status)

\* what the deployment r adds to the history h of a call c: the applications
\* that were in the desired status at some moment of the call, and whether
\* all of them were at one moment
recorded(h, c, r) ==
    [each |-> h.each \cup {a \in Range(c.apps) : in_desired_status(c, r, a)},
     together |-> h.together \/ \A a \in Range(c.apps) : in_desired_status(c, r, a)]

\* the deployment changes while the call is in progress, the history of the
\* call being kept
RemoteChangesRecorded ==
    /\ pc \in {"get_model", "wait_for"}
    /\ \E a \in Range(call.apps) : \E s \in RemoteStatuses(a) \ {remote[a]} :
         remote' = [remote EXCEPT ![a] = s]
    /\ history' = recorded(history, call, remote')
    /\ UNCHANGED <<evaluation, call, pc, outcome, model_connectors,
                   get_model_calls, excs, timed_out, tasks, queue, get_status_calls,
                   published, helper, updater, viewer, command>>

\* one call with no unit list and no queue, the history starting with the
\* deployment the call finds
HistoryInit ==
    /\ InitOf({c \in Calls : c.units = None /\ c.queue = None})
    /\ history = recorded([each |-> {}, together |-> FALSE], call, remote)

HistoryNext == WaitNext \/ RemoteChangesRecorded

HistorySpec == HistoryInit /\ [][HistoryNext]_vars

\* The event loop runs every callback that is ready and the model answers
\* every get_model and get_status: the steps of the call and of its tasks
\* that wait for nothing but the loop or an answer are taken once enabled.
\* The expiry of the timeout, the cancellation by the caller, the failure of
\* a request and the changes of the deployment are under no such obligation.
WaiterStep ==
    \/ Call
    \/ GetModelReturns
    \/ Gathered
    \/ TimeoutRaised
    \/ CancelRaised
    \/ Disconnect

TaskStep(i) ==
    /\ i \in 1..Len(tasks)
    /\ \/ TaskStart(i)
       \/ SleepReturns(i)
       \/ GetStatusReturns(i)
       \/ CancelledErrorThrown(i)

LiveInit ==
    /\ InitOf({c \in Calls : c.units = None /\ c.queue = None})
    /\ history = NoHistory

LiveSpec ==
    /\ LiveInit
    /\ [][Next]_vars
    /\ WF_vars(WaiterStep)
    /\ \A i \in 1..MaxApps : WF_vars(TaskStep(i))

----------------------------------------------------------------------------
\* Other operations of the helper, one call of one of them:
\*   wait_application_ready      917-959
\*   wait_until_active           1127-1147, which calls wait_until_desired_status
\*   get_model_status            428-434
\*   JujuActionHelper.get_unit   1837-1857
\*   wait_units_ready            1035-1099

AcceptedStatusArgs == {None, Some(<<"blocked">>)}

MachineIds == {"0", "1"}

\* the names wait_units_ready is given: a unit of each application, a unit
\* no application has, and a name that is not of the form application/id
UnitNamesGiven ==
    {UnitName(APP_C, "0"), UnitName(APP_MC, "0"), UnitName(APP_C, "1"), APP_C}

UnitsArgs == [{1} -> UnitNamesGiven] \cup [{1, 2} -> UnitNamesGiven]

\* accepted_status of wait_units_ready: a dict with the keys it has
AcceptedStatusMaps ==
    {None, Some([workload |-> <<"blocked">>]), Some([agent |-> <<"executing">>])}

HelperCalls ==
    [op : {"wait_application_ready"}, model : {MODEL}, name : AppNames,
     accepted_status : AcceptedStatusArgs]
    \cup [op : {"wait_until_active"}, model : {MODEL},
          apps : {None, Some(<<APP_MC>>)}, queue : {None}]
    \cup [op : {"get_model_status"}, model : {MODEL}]
    \cup [op : {"get_unit"}, model : {MODEL}, app : AppNames,
          machine_id : MachineIds]
    \cup [op : {"wait_units_ready"}, model : {MODEL}, units : UnitsArgs,
          accepted_status : AcceptedStatusMaps]

NewHelper(hc) ==
    [call |-> hc, pc |-> "idle", outcome |-> None, connection |-> 0,
     application |-> None, block_until_calls |-> 0, unit_list |-> <<>>]

\* 934-935
accepted(accepted_status) ==
    IF accepted_status.none THEN <<"active">> ELSE accepted_status.val

\* 938-942: model_impl.applications.get(name), and the early exit
on_application_wait_always(application) == "block_until"

on_application(application) ==
    IF application.absent THEN "return" ELSE "block_until"

\* application.status of the Application object, None with no application
status_of(r) == IF r.absent THEN None ELSE Some(r.application.status)

\* list(model_impl.applications.keys())
applications_keys ==
    SelectSeq(<<APP_C, APP_MC>>, LAMBDA a : ~remote[a].absent)

\* 1143-1144
apps_watched_as_given(apps) == IF apps.none THEN <<>> ELSE apps.val

apps_watched(apps) == IF apps.none THEN applications_keys ELSE apps.val

\* 1052-1056: accepted_status.get(key, default), {} standing for None
accepted_for(accepted_status, key, default) ==
    IF accepted_status.none THEN default
    ELSE IF key \in DOMAIN accepted_status.val THEN accepted_status.val[key]
    ELSE default

\* 569-576 _validate_unit: unit.split("/") has two parts
valid_unit(unit) == Cardinality({k \in 1..Len(unit) : unit[k] = "/"}) = 1

\* model.units: the units of the applications of the model, by name
model_units ==
    UNION {DOMAIN remote[a].application.units : a \in {x \in AppNames : ~remote[x].absent}}

unit_of(name) ==
    LET a == CHOOSE x \in {y \in AppNames : ~remote[y].absent} :
                 name \in DOMAIN remote[x].application.units
    IN  remote[a].application.units[name]

\* 1062-1070: the names are taken in order; a name that is not valid raises
\* ValueError, a unit that is missing ends the operation, and with neither
\* the wait is entered with every unit
on_units_skip_missing(units) ==
    IF \E k \in 1..Len(units) : ~valid_unit(units[k])
    THEN [step |-> "ValueError", unit_list |-> <<>>]
    ELSE [step |-> "block_until",
          unit_list |-> SelectSeq(units, LAMBDA u : u \in model_units)]

on_units(units) ==
    LET stops == {k \in 1..Len(units) :
                    ~valid_unit(units[k]) \/ units[k] \notin model_units}
    IN  IF stops = {} THEN [step |-> "block_until", unit_list |-> units]
        ELSE LET first == CHOOSE k \in stops : \A j \in stops : k <= j
             IN  IF ~valid_unit(units[first])
                 THEN [step |-> "ValueError", unit_list |-> <<>>]
                 ELSE [step |-> "return", unit_list |-> <<>>]

\* 1078-1088 condition(): the units are taken in order; model_impl.units[name]
\* raises KeyError for a unit the model has no more, and the first unit that
\* is not ready makes it False
units_condition(unit_list, accepted_status) ==
    LET ready(name) ==
            /\ \E k \in 1..Len(accepted_for(accepted_status, "agent", <<"idle">>)) :
                  accepted_for(accepted_status, "agent", <<"idle">>)[k]
                    = unit_of(name).agent_status
            /\ \E k \in 1..Len(accepted_for(accepted_status, "workload", <<"active">>)) :
                  accepted_for(accepted_status, "workload", <<"active">>)[k]
                    = unit_of(name).workload_status
        stops == {k \in 1..Len(unit_list) :
                    unit_list[k] \notin model_units \/ ~ready(unit_list[k])}
    IN  IF stops = {} THEN "True"
        ELSE LET first == CHOOSE k \in stops : \A j \in stops : k <= j
             IN  IF unit_list[first] \notin model_units THEN "KeyError" ELSE "False"

\* 1145-1147: the arguments wait_until_active hands on
delegated_call(hc) ==
    [model |-> hc.model,
     apps |-> apps_watched(hc.apps),
     units |-> None,
     status |-> Some(<<"active">>),
     agent_status |-> None,
     queue |-> hc.queue]

\* get_unit_from_machine (548-567): the unit of the application on the
\* machine; unit <app>/<n> of the remote status is on machine <n>
unit_from_machine(application, machine_id, model) ==
    IF remote[application].absent
    THEN Raised("ApplicationNotFoundException", [model |-> model])
    ELSE LET on_machine == {u \in DOMAIN remote[application].application.units :
                              u[Len(u)] = machine_id}
         IN  IF on_machine = {}
             THEN Raised("UnitNotFoundException", [model |-> model])
             ELSE Some([kind |-> "returned", unit |-> CHOOSE u \in on_machine : TRUE])

HelperCall ==
    /\ helper.pc = "idle"
    /\ helper' = [helper EXCEPT !.pc = "get_model"]
    /\ get_model_calls' = get_model_calls + 1
    /\ UNCHANGED <<evaluation, call, pc, outcome, model_connectors, excs,
                   timed_out, tasks, queue, remote, get_status_calls, published,
                   updater, history, viewer, command>>

\* get_model answers (285-287), and the operation runs to its next await
HelperGetModelReturns ==
    /\ helper.pc = "get_model"
    /\ model_connectors' =
         Append(model_connectors, [model |-> helper.call.model, connected |-> TRUE])
    /\ LET opened == [helper EXCEPT !.connection = Len(model_connectors) + 1]
           hc == helper.call
       IN  CASE hc.op = "wait_application_ready" ->
                  /\ helper' =
                       IF on_application(remote[hc.name]) = "return"
                       THEN [opened EXCEPT !.pc = "exit", !.outcome = Returned]
                       ELSE [opened EXCEPT
                               !.pc = "block_until",
                               !.application = status_of(remote[hc.name]),
                               !.block_until_calls = 1]
                  /\ UNCHANGED <<call, pc, updater, history, viewer, command>>
             [] hc.op = "wait_until_active" ->
                  /\ helper' = [opened EXCEPT !.pc = "delegated"]
                  /\ call' = delegated_call(hc)
                  /\ pc' = "idle"
             [] hc.op = "get_model_status" ->
                  /\ helper' = [opened EXCEPT !.pc = "get_status"]
                  /\ UNCHANGED <<call, pc, updater, history, viewer, command>>
             [] hc.op = "wait_units_ready" ->
                  /\ helper' =
                       LET taken == on_units(hc.units)
                       IN  CASE taken.step = "ValueError" ->
                                  [opened EXCEPT
                                     !.pc = "exit",
                                     !.outcome = Raised("ValueError",
                                                        [model |-> hc.model])]
                             [] taken.step = "return" ->
                                  [opened EXCEPT !.pc = "exit", !.outcome = Returned]
                             [] taken.step = "block_until" ->
                                  [opened EXCEPT
                                     !.pc = "units_block_until",
                                     !.unit_list = taken.unit_list,
                                     !.block_until_calls = 1]
                  /\ UNCHANGED <<call, pc, updater, history, viewer, command>>
             [] hc.op = "get_unit" ->
                  /\ helper' = [opened EXCEPT
                                  !.pc = "done",
                                  !.outcome = unit_from_machine(hc.app, hc.machine_id,
                                                                hc.model)]
                  /\ UNCHANGED <<call, pc, updater, history, viewer, command>>
    /\ UNCHANGED <<evaluation, outcome, get_model_calls, excs, timed_out, tasks,
                   queue, remote, get_status_calls, published, updater,
                   history, viewer, command>>

\* get_model raises (288-291): nothing was opened
HelperGetModelRaises ==
    /\ helper.pc = "get_model"
    /\ helper' = [helper EXCEPT
                    !.pc = "done",
                    !.outcome = Raised("ModelNotFoundException",
                                       [model |-> helper.call.model])]
    /\ UNCHANGED <<evaluation, call, pc, outcome, model_connectors,
                   get_model_calls, excs, timed_out, tasks, queue, remote,
                   get_status_calls, published, updater, history, viewer,
                   command>>

\* 951: lambda: application.status in accepted_status
block_until_condition ==
    /\ ~helper.application.none
    /\ \E k \in 1..Len(accepted(helper.call.accepted_status)) :
          accepted(helper.call.accepted_status)[k] = helper.application.val

\* 950-953: block_until returns, its condition being true
BlockUntilReturns ==
    /\ helper.pc = "block_until"
    /\ block_until_condition
    /\ helper' = [helper EXCEPT !.pc = "exit", !.outcome = Returned]
    /\ UNCHANGED <<evaluation, call, pc, outcome, model_connectors,
                   get_model_calls, excs, timed_out, tasks, queue, remote,
                   get_status_calls, published, updater, history, viewer,
                   command>>

\* 954-957: block_until raises asyncio.TimeoutError
BlockUntilTimesOut ==
    /\ helper.pc = "block_until"
    /\ ~block_until_condition
    /\ helper' = [helper EXCEPT
                    !.pc = "exit",
                    !.outcome = Raised("TimeoutException",
                                       [name |-> helper.call.name])]
    /\ UNCHANGED <<evaluation, call, pc, outcome, model_connectors,
                   get_model_calls, excs, timed_out, tasks, queue, remote,
                   get_status_calls, published, updater, history, viewer,
                   command>>

\* 1090-1094: block_until returns, condition() being True
UnitsBlockUntilReturns ==
    /\ helper.pc = "units_block_until"
    /\ units_condition(helper.unit_list, helper.call.accepted_status) = "True"
    /\ helper' = [helper EXCEPT !.pc = "exit", !.outcome = Returned]
    /\ UNCHANGED <<evaluation, call, pc, outcome, model_connectors,
                   get_model_calls, excs, timed_out, tasks, queue, remote,
                   get_status_calls, published, updater, history, viewer,
                   command>>

\* 1081: condition() raises KeyError, which block_until lets through
UnitsBlockUntilRaises ==
    /\ helper.pc = "units_block_until"
    /\ units_condition(helper.unit_list, helper.call.accepted_status) = "KeyError"
    /\ helper' = [helper EXCEPT
                    !.pc = "exit",
                    !.outcome = Raised("KeyError", [model |-> helper.call.model])]
    /\ UNCHANGED <<evaluation, call, pc, outcome, model_connectors,
                   get_model_calls, excs, timed_out, tasks, queue, remote,
                   get_status_calls, published, updater, history, viewer,
                   command>>

\* 1095-1099: block_until raises asyncio.TimeoutError
UnitsBlockUntilTimesOut ==
    /\ helper.pc = "units_block_until"
    /\ units_condition(helper.unit_list, helper.call.accepted_status) # "True"
    /\ helper' = [helper EXCEPT
                    !.pc = "exit",
                    !.outcome = Raised("TimeoutException",
                                       [model |-> helper.call.model])]
    /\ UNCHANGED <<evaluation, call, pc, outcome, model_connectors,
                   get_model_calls, excs, timed_out, tasks, queue, remote,
                   get_status_calls, published, updater, history, viewer,
                   command>>

\* 1145-1147: wait_until_desired_status has returned or raised
WaitUntilActiveResumes ==
    /\ helper.pc = "delegated"
    /\ pc = "done"
    /\ helper' = [helper EXCEPT !.pc = "exit", !.outcome = outcome]
    /\ UNCHANGED <<evaluation, call, pc, outcome, model_connectors,
                   get_model_calls, excs, timed_out, tasks, queue, remote,
                   get_status_calls, published, updater, history, viewer,
                   command>>

\* 433-434
GetModelStatusReturns ==
    /\ helper.pc = "get_status"
    /\ helper' = [helper EXCEPT
                    !.pc = "exit",
                    !.outcome = Some([kind |-> "returned",
                                      status |-> get_status(applications_keys)])]
    /\ get_status_calls' = get_status_calls + 1
    /\ UNCHANGED <<evaluation, call, pc, outcome, model_connectors,
                   get_model_calls, excs, timed_out, tasks, queue, remote,
                   published, updater, history, viewer, command>>

GetModelStatusRaises ==
    /\ helper.pc = "get_status"
    /\ helper' = [helper EXCEPT
                    !.pc = "exit",
                    !.outcome = Raised("ConnectionClosedError",
                                       [model |-> helper.call.model])]
    /\ get_status_calls' = get_status_calls + 1
    /\ UNCHANGED <<evaluation, call, pc, outcome, model_connectors,
                   get_model_calls, excs, timed_out, tasks, queue, remote,
                   published, updater, history, viewer, command>>

\* the exit of the operation's get_model_closing (307-308)
HelperExit ==
    /\ helper.pc = "exit"
    /\ model_connectors' =
         [model_connectors EXCEPT ![helper.connection].connected = FALSE]
    /\ helper' = [helper EXCEPT !.pc = "done"]
    /\ UNCHANGED <<evaluation, call, pc, outcome, get_model_calls, excs,
                   timed_out, tasks, queue, remote, get_status_calls, published,
                   updater, history, viewer, command>>

\* the deployment changes while the operation waits; the Application object
\* the operation holds follows the status of an application that exists
HelperRemoteChanges ==
    /\ helper.pc \in {"get_model", "block_until", "units_block_until",
                     "get_status"}
    /\ \E a \in AppNames : \E s \in RemoteStatuses(a) \ {remote[a]} :
         /\ remote' = [remote EXCEPT ![a] = s]
         /\ helper' =
              IF helper.pc = "block_until" /\ a = helper.call.name /\ ~s.absent
              THEN [helper EXCEPT !.application = status_of(s)]
              ELSE helper
    /\ UNCHANGED <<evaluation, call, pc, outcome, model_connectors,
                   get_model_calls, excs, timed_out, tasks, queue,
                   get_status_calls, published, updater, history, viewer,
                   command>>

HelperInit ==
    /\ evaluation = NoEvaluation
    /\ call = None
    /\ pc = "not_called"
    /\ outcome = None
    /\ model_connectors = <<>>
    /\ get_model_calls = 0
    /\ excs = <<>>
    /\ timed_out = FALSE
    /\ tasks = <<>>
    /\ queue = <<>>
    /\ remote \in {r \in [AppNames -> UNION {RemoteStatuses(a) : a \in AppNames}] :
                     \A a \in AppNames : r[a] \in RemoteStatuses(a)}
    /\ get_status_calls = 0
    /\ published = 0
    /\ helper \in {NewHelper(hc) : hc \in HelperCalls}
    /\ updater = NoUpdater
    /\ history = NoHistory
    /\ viewer = NoViewer
    /\ command = NoCommand

HelperNext ==
    \/ HelperCall
    \/ HelperGetModelReturns
    \/ HelperGetModelRaises
    \/ BlockUntilReturns
    \/ BlockUntilTimesOut
    \/ UnitsBlockUntilReturns
    \/ UnitsBlockUntilRaises
    \/ UnitsBlockUntilTimesOut
    \/ WaitUntilActiveResumes
    \/ GetModelStatusReturns
    \/ GetModelStatusRaises
    \/ HelperExit
    \/ HelperRemoteChanges
    \/ WaitNext
    \/ RemoteChanges

HelperSpec == HelperInit /\ [][HelperNext]_vars

----------------------------------------------------------------------------
\* The status updater of one model: tick_status, the generator a watch task
\* pulls its statuses from, and _model_ticker, the background task that
\* calls reconnect_model_and_notify_awaiters at every tick.
\*   ticker    sleep      between two ticks
\*             tick       in `await reconnect_model_and_notify_awaiters()`
\*             done       returned
\*             failed     ended by an exception
\*   consumer  wait       in `await condition.wait()`
\*             woken      notified, about to look at is_connected()
\*             get_status in `await model_impl.get_status()`
\*             yielded    a status was yielded, the next is not asked for
\*             stopped    the generator has returned

\* most ticks of the reconnection loop
MaxTicks == 3

NewUpdater(connected) ==
    [connected |-> connected,
     ticker |-> [state |-> "sleep", must_cancel |-> FALSE, exc |-> NoException,
                 ticks |-> 0, silenced |-> 0],
     consumer |-> [state |-> "wait", fetches |-> 0, yields |-> 0,
                   retried |-> 0, skipped |-> 0]]

\* what reconnect_model_and_notify_awaiters comes to: with the connection
\* live it notifies; with the connection dead it reconnects and notifies,
\* or fails to (NoConnectionException, any other exception) and does not
\* notify. "raises" is an exception that leaves the method
TickResults(connected) ==
    (IF connected THEN {"notify_all"}
     ELSE {"reconnected", "NoConnectionException", "silenced"}) \cup {"raises"}

\* _model_ticker: an exception raised by the tick is caught and logged, and
\* the loop sleeps until the next tick
on_tick_exception_propagated(state) == "failed"

on_tick_exception(state) == "sleep"

\* tick_status, notified: it fetches if is_connected(), waits again if not
on_woken_fetch_always(connected) == "get_status"

on_woken(connected) == IF connected THEN "get_status" ELSE "wait"

notify_all(consumer) ==
    IF consumer.state = "wait" THEN [consumer EXCEPT !.state = "woken"] ELSE consumer

TickStarts ==
    /\ updater.ticker.state = "sleep"
    /\ ~updater.ticker.must_cancel
    /\ updater.ticker.ticks < MaxTicks
    /\ updater' = [updater EXCEPT !.ticker.state = "tick",
                                  !.ticker.ticks = updater.ticker.ticks + 1]
    /\ UNCHANGED waiter_vars
    /\ UNCHANGED evaluation

TickEnds ==
    /\ updater.ticker.state = "tick"
    /\ ~updater.ticker.must_cancel
    /\ \E result \in TickResults(updater.connected) :
         CASE result \in {"notify_all", "reconnected"} ->
                updater' = [updater EXCEPT
                              !.connected = TRUE,
                              !.consumer = notify_all(updater.consumer),
                              !.ticker.state = "sleep"]
           [] result \in {"NoConnectionException", "silenced"} ->
                updater' = [updater EXCEPT !.ticker.state = "sleep"]
           [] result = "raises" ->
                updater' = [updater EXCEPT
                              !.ticker.state = on_tick_exception(updater.ticker.state),
                              !.ticker.exc =
                                  IF on_tick_exception(updater.ticker.state) = "failed"
                                  THEN Exception("Exception", MODEL)
                                  ELSE NoException,
                              !.ticker.silenced = updater.ticker.silenced + 1]
    /\ UNCHANGED waiter_vars
    /\ UNCHANGED evaluation

\* the updater is torn down: the ticker task is cancelled
TickerCancel ==
    /\ updater.ticker.state \in {"sleep", "tick"}
    /\ ~updater.ticker.must_cancel
    /\ updater' = [updater EXCEPT !.ticker.must_cancel = TRUE]
    /\ UNCHANGED waiter_vars
    /\ UNCHANGED evaluation

\* CancelledError in the ticker: it returns
TickerCancelledErrorThrown ==
    /\ updater.ticker.state \in {"sleep", "tick"}
    /\ updater.ticker.must_cancel
    /\ updater' = [updater EXCEPT !.ticker.state = "done",
                                  !.ticker.must_cancel = FALSE]
    /\ UNCHANGED waiter_vars
    /\ UNCHANGED evaluation

\* the connection of the model dies
ConnectionDrops ==
    /\ updater.connected
    /\ updater' = [updater EXCEPT !.connected = FALSE]
    /\ UNCHANGED waiter_vars
    /\ UNCHANGED evaluation

\* tick_status, notified
TickStatusWoken ==
    /\ updater.consumer.state = "woken"
    /\ updater' =
         IF on_woken(updater.connected) = "get_status"
         THEN [updater EXCEPT !.consumer.state = "get_status",
                              !.consumer.fetches = updater.consumer.fetches + 1]
         ELSE [updater EXCEPT !.consumer.state = "wait",
                              !.consumer.skipped = updater.consumer.skipped + 1]
    /\ UNCHANGED waiter_vars
    /\ UNCHANGED evaluation

\* get_status answers: the status is yielded
TickStatusYields ==
    /\ updater.consumer.state = "get_status"
    /\ updater.connected
    /\ updater' = [updater EXCEPT !.consumer.state = "yielded",
                                  !.consumer.yields = updater.consumer.yields + 1]
    /\ UNCHANGED waiter_vars
    /\ UNCHANGED evaluation

\* get_status raises ConnectionClosedError: back to the wait
TickStatusRetries ==
    /\ updater.consumer.state = "get_status"
    /\ updater' = [updater EXCEPT !.consumer.state = "wait",
                                  !.consumer.retried = updater.consumer.retried + 1]
    /\ UNCHANGED waiter_vars
    /\ UNCHANGED evaluation

\* the next status is asked for
TickStatusNext ==
    /\ updater.consumer.state = "yielded"
    /\ updater' = [updater EXCEPT !.consumer.state = "wait"]
    /\ UNCHANGED waiter_vars
    /\ UNCHANGED evaluation

\* CancelledError in tick_status: the generator returns
TickStatusCancelled ==
    /\ updater.consumer.state \in {"wait", "get_status"}
    /\ updater' = [updater EXCEPT !.consumer.state = "stopped"]
    /\ UNCHANGED waiter_vars
    /\ UNCHANGED evaluation

UpdaterInit ==
    /\ evaluation = NoEvaluation
    /\ call = None
    /\ pc = "idle"
    /\ outcome = None
    /\ model_connectors = <<>>
    /\ get_model_calls = 0
    /\ excs = <<>>
    /\ timed_out = FALSE
    /\ tasks = <<>>
    /\ queue = <<>>
    /\ remote = <<>>
    /\ get_status_calls = 0
    /\ published = 0
    /\ helper = NoHelper
    /\ updater \in {NewUpdater(connected) : connected \in BOOLEAN}
    /\ history = NoHistory
    /\ viewer = NoViewer
    /\ command = NoCommand

UpdaterNext ==
    \/ TickStarts
    \/ TickEnds
    \/ TickerCancel
    \/ TickerCancelledErrorThrown
    \/ ConnectionDrops
    \/ TickStatusWoken
    \/ TickStatusYields
    \/ TickStatusRetries
    \/ TickStatusNext
    \/ TickStatusCancelled

UpdaterSpec == UpdaterInit /\ [][UpdaterNext]_vars

-----------------------------------------------------------------------------
\* The OperationViewer of the maintenance feature
\* (features/maintenance/utils.py 68-199): the ordered list of the operations
\* of a maintenance run and the state of each.
\*   operations        list[str]
\*   operation_states  dict[str, str]
\*   last              the last method called, what it was given and what it
\*                     did outside the two fields

\* the Juju helper is not used
NoJuju ==
    /\ evaluation = NoEvaluation
    /\ call = None
    /\ pc = "idle"
    /\ outcome = None
    /\ model_connectors = <<>>
    /\ get_model_calls = 0
    /\ excs = <<>>
    /\ timed_out = FALSE
    /\ tasks = <<>>
    /\ queue = <<>>
    /\ remote = <<>>
    /\ get_status_calls = 0
    /\ published = 0
    /\ helper = NoHelper
    /\ updater = NoUpdater
    /\ history = NoHistory

\* most operations a viewer is given
MaxOperations == 2

NODE == "node"

ResultTypes == {"COMPLETED", "FAILED", "SKIPPED"}

\* watcher.Action objects: the type, which with the parameters gives the key,
\* and the state
WatcherAction(action_type, state) == [action_type |-> action_type, state |-> state]

WatcherActionLists ==
    {<<>>,
     <<WatcherAction("migrate", "SUCCEEDED")>>,
     <<WatcherAction("change_nova_service_state", "SUCCEEDED"),
       WatcherAction("migrate", "FAILED")>>}

\* the output of the charm's enter-maintenance and exit-maintenance actions:
\* "actions" in the order of the dict, each with its id and maybe an error
ActionResults ==
    {[errors |-> "failed"],
     [actions |-> <<[step |-> "step1", id |-> "id-1"]>>, errors |-> ""],
     [actions |-> <<[step |-> "step1", id |-> "id-1", error |-> ""]>>, errors |-> ""],
     [actions |-> <<[step |-> "step1", id |-> "id-1"],
                    [step |-> "step2", id |-> "id-2", error |-> "some-error-msg"]>>,
      errors |-> "some-error-msg"]}

NewViewer(node) ==
    [node |-> node, operations |-> <<>>, operation_states |-> <<>>,
     last |-> [op |-> "__init__"]]

\* 100-115: the key of a watcher action, for the parameters state=disabled
\* resource_name=node and migration_type=live resource_name=vm
get_watcher_action_key(action) ==
    IF action.action_type = "change_nova_service_state"
    THEN "change_nova_service_state state=disabled resource=node"
    ELSE "Migrate instance type=live resource=vm"

\* dict.get("actions", {}).items()
actions_of(action_result) ==
    IF "actions" \in DOMAIN action_result THEN action_result.actions ELSE <<>>

\* action.get("error") is truthy
has_error(action) == "error" \in DOMAIN action /\ action.error # ""

\* operation_states[key] = value for the assignments in order
assigned(states, assignments) ==
    LET keys == {assignments[i].key : i \in 1..Len(assignments)}
        last_of(k) == CHOOSE i \in 1..Len(assignments) :
                         /\ assignments[i].key = k
                         /\ \A j \in 1..Len(assignments) :
                               assignments[j].key = k => j <= i
    IN  [k \in DOMAIN states \cup keys |->
           IF k \in keys THEN assignments[last_of(k)].value ELSE states[k]]

\* 117-122 add_watch_actions
add_watch_actions(v, actions) ==
    [v EXCEPT
       !.operations = @ \o [i \in 1..Len(actions) |-> get_watcher_action_key(actions[i])],
       !.operation_states =
          assigned(@, [i \in 1..Len(actions) |->
                         [key |-> get_watcher_action_key(actions[i]),
                          value |-> "PENDING"]]),
       !.last = [op |-> "add_watch_actions", actions |-> actions]]

\* 124-134 add_maintenance_action_steps
add_maintenance_action_steps(v, action_result) ==
    LET actions == actions_of(action_result)
    IN  [v EXCEPT
           !.operations = @ \o [i \in 1..Len(actions) |-> actions[i].id],
           !.operation_states =
              assigned(@, [i \in 1..Len(actions) |->
                             [key |-> actions[i].id, value |-> "SKIPPED"]]),
           !.last = [op |-> "add_maintenance_action_steps",
                     action_result |-> action_result]]

\* 136-139 add_step
add_step(v, step_name) ==
    [v EXCEPT
       !.operations = Append(@, step_name),
       !.operation_states = assigned(@, <<[key |-> step_name, value |-> "SKIPPED"]>>),
       !.last = [op |-> "add_step", step_name |-> step_name]]

\* 141-145 update_watcher_actions_result: the assignments it makes
watcher_actions_result(actions) ==
    [i \in 1..Len(actions) |->
       [key |-> get_watcher_action_key(actions[i]), value |-> actions[i].state]]

\* 147-159 update_maintenance_action_steps_result: the assignments it makes
maintenance_action_steps_result_all_succeeded(action_result) ==
    LET actions == actions_of(action_result)
    IN  [i \in 1..Len(actions) |-> [key |-> actions[i].id, value |-> "SUCCEEDED"]]

maintenance_action_steps_result(action_result) ==
    LET actions == actions_of(action_result)
    IN  [i \in 1..Len(actions) |->
           [key |-> actions[i].id,
            value |-> IF has_error(actions[i]) THEN "FAILED" ELSE "SUCCEEDED"]]

\* 161-168 update_step_result: the assignment it makes
step_result(step_name, result) ==
    <<[key |-> step_name,
       value |-> IF result.result_type = "COMPLETED" THEN "SUCCEEDED"
                 ELSE IF result.result_type = "FAILED" THEN "FAILED"
                 ELSE "SKIPPED"]>>

update_watcher_actions_result(v, actions) ==
    [v EXCEPT
       !.operation_states = assigned(@, watcher_actions_result(actions)),
       !.last = [op |-> "update_watcher_actions_result", actions |-> actions]]

update_maintenance_action_steps_result(v, action_result) ==
    [v EXCEPT
       !.operation_states = assigned(@, maintenance_action_steps_result(action_result)),
       !.last = [op |-> "update_maintenance_action_steps_result",
                 action_result |-> action_result]]

update_step_result(v, step_name, result) ==
    [v EXCEPT
       !.operation_states = assigned(@, step_result(step_name, result)),
       !.last = [op |-> "update_step_result", step_name |-> step_name,
                 result |-> result]]

\* 82-90 _operation_result: a line for each operation, with its state
operation_result(v) ==
    [i \in 1..Len(v.operations) |->
       [idx |-> i - 1, step |-> v.operations[i],
        state |-> v.operation_states[v.operations[i]]]]

\* 182-191: what the loop of check_operation_succeeded records for a result
recorded_for(result) ==
    CASE result.name = "RunWatcherAuditStep" -> watcher_actions_result(result.message)
      [] result.name = "MicroCephActionStep" ->
            maintenance_action_steps_result(result.message)
      [] result.name = "EnableHypervisorStep" -> step_result(result.name, result)
      [] OTHER -> <<>>

RECURSIVE recorded_for_all(_)
recorded_for_all(results) ==
    IF results = <<>> THEN <<>>
    ELSE recorded_for(Head(results)) \o recorded_for_all(Tail(results))

\* 196-199 _raise_exception
raise_exception(name, result) ==
    IF name = "MicroCephActionStep"
    THEN Raised("ClickException", [message |-> result.message.errors])
    ELSE Raised("ClickException", [message |-> result.message])

\* 178-194 check_operation_succeeded: the results are recorded in order, the
\* operation result is printed, and the exception of the last failed result
\* is raised
check_operation_succeeded_raise_at_once(v, results) ==
    LET failed == {i \in 1..Len(results) : results[i].result_type = "FAILED"}
        first == CHOOSE i \in failed : \A j \in failed : i <= j
        taken == IF failed = {} THEN results ELSE SubSeq(results, 1, first - 1)
        after == [v EXCEPT !.operation_states = assigned(@, recorded_for_all(taken))]
    IN  [after EXCEPT
           !.last = [op |-> "check_operation_succeeded",
                     results |-> results,
                     events |-> [i \in 1..Len(taken) |->
                                   [event |-> "update", name |-> taken[i].name]]
                                \o (IF failed = {}
                                    THEN <<[event |-> "print",
                                            text |-> operation_result(after)]>>
                                    ELSE <<[event |-> "raise"]>>),
                     outcome |-> IF failed = {} THEN Returned
                                 ELSE raise_exception(results[first].name,
                                                      results[first])]]

check_operation_succeeded(v, results) ==
    LET failed == {i \in 1..Len(results) : results[i].result_type = "FAILED"}
        last_failed == CHOOSE i \in failed : \A j \in failed : j <= i
        after == [v EXCEPT !.operation_states = assigned(@, recorded_for_all(results))]
    IN  [after EXCEPT
           !.last = [op |-> "check_operation_succeeded",
                     results |-> results,
                     events |-> [i \in 1..Len(results) |->
                                   [event |-> "update", name |-> results[i].name]]
                                \o <<[event |-> "print",
                                      text |-> operation_result(after)]>>
                                \o (IF failed = {} THEN <<>>
                                    ELSE <<[event |-> "raise"]>>),
                     outcome |-> IF failed = {} THEN Returned
                                 ELSE raise_exception(results[last_failed].name,
                                                      results[last_failed])]]

\* the results run_plan gives for an operation plan: a result for the steps
\* that ran, in the order of the plan; a step that failed reports an action
\* that failed
Result(result_type, message) == [result_type |-> result_type, message |-> message]

ResultsOf(name, results) ==
    {<<>>} \cup {<<[name |-> name, result_type |-> r.result_type,
                    message |-> r.message]>> : r \in results}

ResultsArgs ==
    {e \o w \o m :
       e \in ResultsOf("EnableHypervisorStep",
                       {Result(rt, "message") : rt \in ResultTypes}),
       w \in ResultsOf("RunWatcherAuditStep",
                       {Result("COMPLETED", <<WatcherAction("migrate", "SUCCEEDED")>>),
                        Result("FAILED",
                               <<WatcherAction("change_nova_service_state", "SUCCEEDED"),
                                 WatcherAction("migrate", "FAILED")>>)}),
       m \in ResultsOf("MicroCephActionStep",
                       {Result("COMPLETED",
                               [actions |-> <<[step |-> "step1", id |-> "id-1"]>>,
                                errors |-> ""]),
                        Result("FAILED",
                               [actions |-> <<[step |-> "step1", id |-> "id-1"],
                                              [step |-> "step2", id |-> "id-2",
                                               error |-> "some-error-msg"]>>,
                                errors |-> "some-error-msg"])})}

\* the names update_step_result is given: a step, and a name that is also
\* the id of an action
StepNameArgs == {"EnableHypervisorStep", "id-1"}

AddWatchActions ==
    /\ \E actions \in WatcherActionLists :
         /\ Len(viewer.operations) + Len(actions) <= MaxOperations
         /\ viewer' = add_watch_actions(viewer, actions)
    /\ UNCHANGED <<juju_vars, command>>

AddMaintenanceActionSteps ==
    /\ \E action_result \in ActionResults :
         /\ Len(viewer.operations) + Len(actions_of(action_result)) <= MaxOperations
         /\ viewer' = add_maintenance_action_steps(viewer, action_result)
    /\ UNCHANGED <<juju_vars, command>>

AddStep ==
    /\ Len(viewer.operations) < MaxOperations
    /\ \E step_name \in StepNameArgs : viewer' = add_step(viewer, step_name)
    /\ UNCHANGED <<juju_vars, command>>

UpdateWatcherActionsResult ==
    /\ \E actions \in WatcherActionLists :
         viewer' = update_watcher_actions_result(viewer, actions)
    /\ UNCHANGED <<juju_vars, command>>

UpdateMaintenanceActionStepsResult ==
    /\ \E action_result \in ActionResults :
         viewer' = update_maintenance_action_steps_result(viewer, action_result)
    /\ UNCHANGED <<juju_vars, command>>

UpdateStepResult ==
    /\ \E step_name \in StepNameArgs : \E rt \in ResultTypes :
         viewer' = update_step_result(viewer, step_name, Result(rt, "message"))
    /\ UNCHANGED <<juju_vars, command>>

CheckOperationSucceeded ==
    /\ \E results \in ResultsArgs :
         viewer' = check_operation_succeeded(viewer, results)
    /\ UNCHANGED <<juju_vars, command>>

ViewerInit ==
    /\ NoJuju
    /\ viewer = NewViewer(NODE)
    /\ command = NoCommand

ViewerNext ==
    \/ AddWatchActions
    \/ AddMaintenanceActionSteps
    \/ AddStep
    \/ UpdateWatcherActionsResult
    \/ UpdateMaintenanceActionStepsResult
    \/ UpdateStepResult
    \/ CheckOperationSucceeded

ViewerSpec == ViewerInit /\ [][ViewerNext]_vars

-----------------------------------------------------------------------------
\* The maintenance commands (features/maintenance/commands.py): one run of
\* `enable` (79-227) or of `disable` (249-367) on a node.
\*   args   the options of the command line
\*   env    what the run finds: the roles of the node ({} with no such node),
\*          whether watcher is deployed, the instances of the node, and what
\*          the enter-maintenance action answers with check-only
\*   ran    the checks and the steps run so far, in order
\*   confirm  the answer to the prompt, None while it was not asked

Roles == {"control", "compute", "storage"}

CommandArgs ==
    [cmd : {"enable"}, force : BOOLEAN, dry_run : BOOLEAN,
     disable_instance_workload_rebalancing : {FALSE}]
    \cup [cmd : {"disable"}, force : {FALSE}, dry_run : BOOLEAN,
          disable_instance_workload_rebalancing : BOOLEAN]

Environments ==
    [node_status : SUBSET Roles,
     watcher : BOOLEAN,
     instances : {"expected", "unexpected"},
     ephemeral : BOOLEAN,
     microceph : {"completed", "unit_not_found", "failed_with_error",
                  "failed_without_error"}]

NewCommand(args, env) ==
    [args |-> args, env |-> env, pc |-> "get_node_status", ran |-> <<>>,
     confirm |-> None, outcome |-> None]

ClickException == Raised("ClickException", [model |-> MODEL])

\* checks.py 70-95 InstancesStatusCheck.run
InstancesStatusCheck_run(env, force) ==
    IF env.instances = "unexpected" THEN force ELSE TRUE

\* checks.py 108-132 NoEphemeralDiskCheck.run
NoEphemeralDiskCheck_run(env, force) ==
    IF env.ephemeral THEN force ELSE TRUE

\* checks.py 145-163 NoInstancesOnNodeCheck.run
NoInstancesOnNodeCheck_run(instances_on_node, force) ==
    IF instances_on_node THEN force ELSE TRUE

\* checks.py 176-197 NovaInDisableStatusCheck.run
NovaInDisableStatusCheck_run(nova_disabled, force) ==
    IF ~nova_disabled THEN force ELSE TRUE

\* checks.py 223-253 MicroCephMaintenancePreflightCheck.run
MicroCephMaintenancePreflightCheck_run(env, force) ==
    CASE env.microceph = "unit_not_found" -> FALSE
      [] env.microceph = "failed_with_error" -> force
      [] OTHER -> TRUE

\* checks.py 269-289 WatcherApplicationExistsCheck.run
WatcherApplicationExistsCheck_run(env) == env.watcher

Ran(kind, name, dry_run, returned) ==
    [kind |-> kind, name |-> name, dry_run |-> dry_run, returned |-> returned]

\* commands.py 113-136 and 270-276: the preflight checks, each with what its
\* run() returns
preflight_checks(args, env) ==
    (IF "compute" \in env.node_status
     THEN <<Ran("preflight", "WatcherApplicationExistsCheck", FALSE,
                WatcherApplicationExistsCheck_run(env))>>
          \o (IF args.cmd = "enable"
              THEN <<Ran("preflight", "InstancesStatusCheck", FALSE,
                         InstancesStatusCheck_run(env, args.force)),
                     Ran("preflight", "NoEphemeralDiskCheck", FALSE,
                         NoEphemeralDiskCheck_run(env, args.force))>>
              ELSE <<>>)
     ELSE <<>>)
    \o (IF "storage" \in env.node_status /\ args.cmd = "enable"
        THEN <<Ran("preflight", "MicroCephMaintenancePreflightCheck", FALSE,
                   MicroCephMaintenancePreflightCheck_run(env, args.force))>>
        ELSE <<>>)

\* commands.py 219-225: the post checks of enable
post_checks(args, env, nova_disabled, instances_on_node) ==
    IF "compute" \in env.node_status
    THEN <<Ran("post_check", "NovaInDisableStatusCheck", FALSE,
               NovaInDisableStatusCheck_run(nova_disabled, args.force)),
           Ran("post_check", "NoInstancesOnNodeCheck", FALSE,
               NoInstancesOnNodeCheck_run(instances_on_node, args.force))>>
    ELSE <<>>

\* commands.py 137, 226, 277 run_preflight_checks(checks, console): the checks
\* are run in order and the first whose run() is False raises
\* click.ClickException; what was run of the given checks
run_preflight_checks(checks) ==
    LET failing == {i \in 1..Len(checks) : ~checks[i].returned}
    IN  IF failing = {} THEN checks
        ELSE SubSeq(checks, 1, CHOOSE i \in failing : \A j \in failing : i <= j)

\* commands.py 139-161 and 279-301: the plan that generates the operations
generate_operation_plan(args, env) ==
    (IF "compute" \in env.node_status
     THEN IF args.cmd = "enable"
          THEN <<Ran("plan", "CreateWatcherHostMaintenanceAuditStep", FALSE, TRUE)>>
          ELSE IF ~args.disable_instance_workload_rebalancing
               THEN <<Ran("plan", "CreateWatcherWorkloadBalancingAuditStep", FALSE, TRUE)>>
               ELSE <<>>
     ELSE <<>>)
    \o (IF "storage" \in env.node_status
        THEN <<Ran("plan", "MicroCephActionStep", TRUE, TRUE)>>
        ELSE <<>>)

\* commands.py 190-214 and 333-363: the plan that runs the operations
operation_plan(args, env) ==
    (IF "compute" \in env.node_status
     THEN IF args.cmd = "enable"
          THEN <<Ran("operation", "RunWatcherAuditStep", FALSE, TRUE)>>
          ELSE <<Ran("operation", "EnableHypervisorStep", FALSE, TRUE)>>
               \o (IF ~args.disable_instance_workload_rebalancing
                   THEN <<Ran("operation", "RunWatcherAuditStep", FALSE, TRUE)>>
                   ELSE <<>>)
     ELSE <<>>)
    \o (IF "storage" \in env.node_status
        THEN <<Ran("operation", "MicroCephActionStep", FALSE, TRUE)>>
        ELSE <<>>)

\* commands.py 163, 216, 303, 364 run_plan: the steps are run in order up to
\* the first that fails; `failed` is its place in the plan, 0 with none
run_plan(plan, failed) ==
    IF failed = 0 THEN plan
    ELSE [i \in 1..failed |->
            IF i = failed THEN [plan[i] EXCEPT !.returned = FALSE] ELSE plan[i]]

\* commands.py 182-184 and 325-327: --dry-run prints the plan and returns
on_plan_generated(dry_run) == IF dry_run THEN "return" ELSE "prompt"

\* commands.py 186-188 and 329-331: the answer to the prompt
on_confirm_ignored(confirm) == "operate"

on_confirm(confirm) == IF confirm THEN "operate" ELSE "return"

\* commands.py 90-111 and 258-268
GetNodeStatus ==
    /\ command.pc = "get_node_status"
    /\ command' =
         IF command.env.node_status = {}
         THEN [command EXCEPT !.pc = "done", !.outcome = ClickException]
         ELSE IF /\ command.args.cmd = "enable"
                 /\ "control" \in command.env.node_status
                 /\ ~command.args.force
              THEN [command EXCEPT !.pc = "done", !.outcome = ClickException]
              ELSE [command EXCEPT !.pc = "preflight"]
    /\ UNCHANGED <<juju_vars, viewer>>

\* commands.py 113-137 and 270-277
RunPreflightChecks ==
    /\ command.pc = "preflight"
    /\ LET checks == preflight_checks(command.args, command.env)
           run == run_preflight_checks(checks)
       IN  command' =
             IF \E i \in 1..Len(run) : ~run[i].returned
             THEN [command EXCEPT !.ran = @ \o run, !.pc = "done",
                                  !.outcome = ClickException]
             ELSE [command EXCEPT !.ran = @ \o run, !.pc = "generate"]
    /\ UNCHANGED <<juju_vars, viewer>>

\* commands.py 139-184 and 279-327
GenerateOperationPlan ==
    /\ command.pc = "generate"
    /\ LET plan == generate_operation_plan(command.args, command.env)
       IN  \E failed \in 0..Len(plan) :
              LET run == run_plan(plan, failed)
              IN  command' =
                    IF failed # 0
                    THEN [command EXCEPT !.ran = @ \o run, !.pc = "done",
                                         !.outcome = ClickException]
                    ELSE IF on_plan_generated(command.args.dry_run) = "return"
                         THEN [command EXCEPT !.ran = @ \o run, !.pc = "done",
                                              !.outcome = Returned]
                         ELSE [command EXCEPT !.ran = @ \o run, !.pc = "prompt"]
    /\ UNCHANGED <<juju_vars, viewer>>

\* commands.py 186-188 and 329-331
Prompt ==
    /\ command.pc = "prompt"
    /\ \E confirm \in BOOLEAN :
         command' =
           IF on_confirm(confirm) = "return"
           THEN [command EXCEPT !.confirm = Some(confirm), !.pc = "done",
                                !.outcome = Returned]
           ELSE [command EXCEPT !.confirm = Some(confirm), !.pc = "operate"]
    /\ UNCHANGED <<juju_vars, viewer>>

\* commands.py 190-217 and 333-367
RunOperationPlan ==
    /\ command.pc = "operate"
    /\ LET plan == operation_plan(command.args, command.env)
       IN  \E failed \in 0..Len(plan) :
              LET run == run_plan(plan, failed)
              IN  command' =
                    IF failed # 0
                    THEN [command EXCEPT !.ran = @ \o run, !.pc = "done",
                                         !.outcome = ClickException]
                    ELSE IF command.args.cmd = "enable"
                         THEN [command EXCEPT !.ran = @ \o run, !.pc = "post_checks"]
                         ELSE [command EXCEPT !.ran = @ \o run, !.pc = "done",
                                              !.outcome = Returned]
    /\ UNCHANGED <<juju_vars, viewer>>

\* commands.py 219-227
RunPostChecks ==
    /\ command.pc = "post_checks"
    /\ \E nova_disabled \in BOOLEAN : \E instances_on_node \in BOOLEAN :
         LET checks == post_checks(command.args, command.env, nova_disabled,
                                   instances_on_node)
             run == run_preflight_checks(checks)
         IN  command' =
               IF \E i \in 1..Len(run) : ~run[i].returned
               THEN [command EXCEPT !.ran = @ \o run, !.pc = "done",
                                    !.outcome = ClickException]
               ELSE [command EXCEPT !.ran = @ \o run, !.pc = "done",
                                    !.outcome = Returned]
    /\ UNCHANGED <<juju_vars, viewer>>

MaintenanceInit ==
    /\ NoJuju
    /\ viewer = NoViewer
    /\ command \in {NewCommand(args, env) : args \in CommandArgs, env \in Environments}

MaintenanceNext ==
    \/ GetNodeStatus
    \/ RunPreflightChecks
    \/ GenerateOperationPlan
    \/ Prompt
    \/ RunOperationPlan
    \/ RunPostChecks

MaintenanceSpec == MaintenanceInit /\ [][MaintenanceNext]_vars

----------------------------------------------------------------------------
\* Properties of wait_until_desired_status and of its watch tasks.

Ended == pc \in {"disconnect", "done"}

Raises(type) ==
    /\ Ended
    /\ ~outcome.none
    /\ outcome.val.kind = "raised"
    /\ outcome.val.type = type

TaskIds == 1..Len(tasks)

FailedTasks == {i \in TaskIds : tasks[i].state = "failed"}

\* C1: one timeout for the whole batch: the call raises TimeoutException
\* naming the model if and only if the timeout elapsed while at least one
\* watch task had not terminated, whatever the other tasks had come to.
C1_TimeoutIffBudgetElapsed ==
    Ended =>
        (timed_out <=>
            outcome = Some([kind |-> "raised", type |-> "TimeoutException",
                            about |-> [model |-> call.model]]))

\* the timeout fires with one application satisfied and one still watched
C1_Witness ==
    /\ pc = "done"
    /\ Raises("TimeoutException")
    /\ \E i \in TaskIds : tasks[i].state = "satisfied"
    /\ \E i \in TaskIds : tasks[i].state = "stopped"

\* C2 (as claimed): whenever a watch task ended by an exception, the call
\* raises one JujuWaitException whose list holds exactly the exceptions of
\* the failed tasks, one per failed task.
C2_TaskFailuresAlwaysAggregated ==
    (pc = "done" /\ FailedTasks # {} /\ ~Raises("CancelledError")) =>
        /\ Raises("JujuWaitException")
        /\ Len(outcome.val.about.excs) = Cardinality(FailedTasks)
        /\ \A i \in FailedTasks : tasks[i].exc \in Range(outcome.val.about.excs)

\* C3: once the call has returned or raised, whatever the outcome, every
\* watch task it spawned is in a terminal state.
C3_NoTaskRunningAfterCall ==
    pc = "done" =>
        \A i \in TaskIds :
            tasks[i].state \in {"satisfied", "failed", "stopped", "cancelled"}

\* the caller cancelled the call while two tasks were suspended
C3_Witness ==
    /\ pc = "done"
    /\ Raises("CancelledError")
    /\ Len(tasks) >= 2
    /\ \A i \in TaskIds : tasks[i].state = "stopped"

\* C4: a queue smaller than the number of applications makes the call raise
\* ValueError at once: no get_model call, no connection, no get_status call
\* and no task.
C4_UndersizedQueueFailsFirst ==
    (/\ pc # "idle"
     /\ ~call.queue.none
     /\ call.queue.val.maxsize < Len(call.apps)) =>
        /\ pc = "done"
        /\ Raises("ValueError")
        /\ get_model_calls = 0
        /\ model_connectors = <<>>
        /\ get_status_calls = 0
        /\ tasks = <<>>

C4_Witness ==
    /\ pc = "done"
    /\ Raises("ValueError")
    /\ Len(call.apps) = 2
    /\ call.queue.val.maxsize = 1

\* C5: a watch task whose last received status lacks its application has
\* failed with ValueError, has called get_status no more since, and has
\* posted nothing to the queue.
C5_MissingApplicationIsFatal ==
    \A i \in TaskIds :
        tasks[i].snap = "absent" =>
            /\ tasks[i].state = "failed"
            /\ tasks[i].exc = [type |-> "ValueError", about |-> tasks[i].app]
            /\ tasks[i].polls = tasks[i].received
            /\ tasks[i].posts = 0

\* the application disappears between two polls of its task
C5_Witness ==
    \E i \in TaskIds :
        /\ tasks[i].snap = "absent"
        /\ tasks[i].received = 2
        /\ tasks[i].state = "failed"

\* C6: the step of a task cancelled while suspended in get_status or in
\* sleep ends it with no exception, and what the waiter collects holds no
\* exception of a task that ended so.
C6_CancellationIsSilent ==
    [][/\ \A i \in TaskIds :
            (/\ tasks[i].must_cancel
             /\ tasks[i].state \in {"get_status", "sleep"}
             /\ tasks'[i] # tasks[i]) =>
                /\ tasks'[i].state = "stopped"
                /\ tasks'[i].exc = [type |-> "None"]
       /\ (pc # "disconnect" /\ pc' = "disconnect") =>
             /\ Len(excs') = Cardinality({j \in 1..Len(tasks') :
                                            tasks'[j].state = "failed"})
             /\ \A j \in 1..Len(tasks') :
                   tasks'[j].state = "failed" => tasks'[j].exc \in Range(excs')]_vars

\* one task was cancelled in get_status, another in sleep
C6_Witness ==
    /\ \E i \in TaskIds :
          tasks[i].state = "stopped" /\ tasks[i].polls = tasks[i].received + 1
    /\ \E i \in TaskIds :
          tasks[i].state = "stopped" /\ tasks[i].polls = tasks[i].received

----------------------------------------------------------------------------
\* Properties of the evaluation.

Evaluated == evaluation.pc = "done"

C8_SubordinateVerdictIsApplicationStatus ==
    (Evaluated /\ evaluation.application.subordinate_to # "") =>
        (evaluation.result <=>
            evaluation.application.status \in evaluation.expected_status)

\* C9 (as claimed): an empty unit list is no restriction: the verdict is
\* the one reached with no unit list.
C9_EmptySubsetIsNoSubset ==
    (Evaluated /\ evaluation.unit_list = Some(<<>>)) =>
        evaluation.result =
            desired_status_achieved(evaluation.application, None,
                                    evaluation.expected_status,
                                    evaluation.expected_agent_status)

\* C10 (as claimed): the tasks of one wait share the status fetches: the
\* get_status calls made are no more than the statuses the task that
\* polled most has asked for.
C10_FetchesDoNotGrowWithTasks ==
    \A i \in TaskIds :
        (\A j \in TaskIds : tasks[j].polls <= tasks[i].polls) =>
            get_status_calls <= tasks[i].polls

C12_ConnectionClosedNeverFailsTask ==
    \A i \in TaskIds :
        ~(tasks[i].state = "failed" /\ tasks[i].exc.type = "ConnectionClosedError")

\* C13 (as claimed): within one wait at most one status fetch of the model
\* is in flight at any time.
C13_OneFetchInFlight ==
    Cardinality({i \in TaskIds : tasks[i].state = "get_status"}) <= 1

\* C14: in a call that went past the check of the queue, no watch task finds
\* the queue full: none is ended by QueueFull, and every satisfied task has
\* put its application's name on the queue, once.
C14_PostNeverFindsQueueFull ==
    (tasks # <<>> /\ ~call.queue.none) =>
        /\ \A i \in TaskIds : tasks[i].exc.type # "QueueFull"
        /\ \A i \in TaskIds : tasks[i].state = "satisfied" => tasks[i].posts = 1
        /\ Len(queue) = Cardinality({i \in TaskIds : tasks[i].state = "satisfied"})

\* a queue of exactly len(apps) slots, filled by the tasks in reverse order
C14_Witness ==
    /\ ~call.queue.none
    /\ call.queue.val.maxsize = 2
    /\ Len(call.apps) = 2
    /\ queue = <<APP_MC, APP_C>>
    /\ \A i \in TaskIds : tasks[i].state = "satisfied"

----------------------------------------------------------------------------
\* Properties of the other operations of the helper.

\* C15 (as claimed): once an operation of the helper has returned or raised,
\* no model connection it opened is left connected.
C15_NoConnectionLeftOpen ==
    helper.pc = "done" =>
        \A k \in 1..Len(model_connectors) : ~model_connectors[k].connected

\* C19: wait_application_ready, once the model is open, returns without
\* calling block_until when the application is not in the model, and waits
\* in block_until when it is; the wait ends by a normal return when the
\* status the application has then is in the accepted list (["active"] when
\* none is given) and by TimeoutException when it is not.
C19_WaitApplicationReady ==
    [][(helper.pc # "none" /\ helper.call.op = "wait_application_ready") =>
         LET name == helper.call.name
             given == helper.call.accepted_status
             acc == IF given.none THEN {"active"} ELSE Range(given.val)
             opens == helper.pc = "get_model" /\ model_connectors' # model_connectors
         IN  /\ (opens /\ remote[name].absent) =>
                   /\ helper'.pc = "exit"
                   /\ helper'.outcome = [none |-> FALSE, val |-> [kind |-> "returned"]]
                   /\ helper'.block_until_calls = 0
             /\ (opens /\ ~remote[name].absent) =>
                   /\ helper'.pc = "block_until"
                   /\ helper'.block_until_calls = 1
             /\ (helper.pc = "block_until" /\ helper'.pc # "block_until") =>
                   /\ helper'.pc = "exit"
                   /\ helper'.outcome.val.kind =
                         IF /\ ~helper.application.none
                            /\ helper.application.val \in acc
                         THEN "returned" ELSE "raised"
                   /\ helper'.outcome.val.kind = "raised" =>
                         helper'.outcome.val.type = "TimeoutException"]_vars

\* the application is missing: the call has returned with no block_until
C19_Witness ==
    /\ helper.pc = "done"
    /\ helper.call.op = "wait_application_ready"
    /\ remote[helper.call.name].absent
    /\ helper.connection = 1
    /\ helper.block_until_calls = 0
    /\ helper.outcome = Returned

\* C20: wait_until_active with apps=None hands to wait_until_desired_status
\* the applications the model has, each once, and the status ["active"];
\* one watch task runs per application and is satisfied only by the status
\* active; the outcome of the call is the outcome of
\* wait_until_desired_status: TimeoutException when the timeout fired,
\* JujuWaitException when the gather completed with a failed task.
C20_WaitUntilActiveWatchesEveryApplication ==
    [][(helper.pc # "none" /\ helper.call.op = "wait_until_active") =>
         LET present == {a \in AppNames : ~remote[a].absent}
         IN  /\ (helper.pc = "get_model" /\ helper'.pc = "delegated"
                    /\ helper.call.apps.none) =>
                   /\ Range(call'.apps) = present
                   /\ Len(call'.apps) = Cardinality(present)
                   /\ Range(call'.status.val) = {"active"}
             /\ (tasks = <<>> /\ tasks' # <<>>) =>
                   /\ Len(tasks') = Len(call.apps)
                   /\ \A i \in 1..Len(tasks') : tasks'[i].app = call.apps[i]
             /\ \A i \in TaskIds :
                   (tasks[i].state # "satisfied" /\ tasks'[i].state = "satisfied") =>
                       /\ ~remote[tasks[i].app].absent
                       /\ remote[tasks[i].app].application.status = "active"
             /\ (helper.pc = "delegated" /\ helper'.pc # "delegated") =>
                   /\ helper'.outcome = outcome
                   /\ timed_out =>
                         (outcome.val.kind = "raised"
                             /\ outcome.val.type = "TimeoutException")
                   /\ (~timed_out /\ FailedTasks # {}
                          /\ \A i \in TaskIds : tasks[i].state \in {"satisfied", "failed"}) =>
                         (outcome.val.kind = "raised"
                             /\ outcome.val.type = "JujuWaitException")]_vars

\* both applications of the model were watched; one became active, the
\* other failed, and the call raised JujuWaitException
C20_Witness ==
    /\ helper.pc = "done"
    /\ helper.call.op = "wait_until_active"
    /\ helper.call.apps.none
    /\ Len(tasks) = 2
    /\ \E i \in TaskIds : tasks[i].state = "satisfied"
    /\ \E i \in TaskIds : tasks[i].state = "failed"
    /\ helper.outcome.val.kind = "raised"
    /\ helper.outcome.val.type = "JujuWaitException"

\* C18 (as claimed): with a set of expected status messages supplied, the
\* verdict is true only if the message of every unit in scope is in the set.
C18_MessagesOutsideTheSetRefuse ==
    (/\ Evaluated
     /\ evaluation.application.subordinate_to = ""
     /\ ~evaluation.expected_workload_status_message.none
     /\ evaluation.result) =>
        \A u \in DOMAIN evaluation.application.units :
            (evaluation.unit_list.none
                \/ \E k \in 1..Len(evaluation.unit_list.val) :
                      evaluation.unit_list.val[k] = u) =>
                evaluation.info[u]
                    \in evaluation.expected_workload_status_message.val

----------------------------------------------------------------------------
\* Properties of the status updater.

\* C16: the reconnection loop is never ended by an exception: a tick that
\* raises leaves the loop asleep until its next tick, with no exception
\* kept, and the loop ends only by the step of a cancellation, with none.
C16_TickerNeverRaises ==
    [][LET t == updater.ticker
           t2 == updater'.ticker
       IN  /\ t2.state # "failed"
           /\ t2.silenced > t.silenced =>
                 /\ t2.state = "sleep"
                 /\ t2.exc = [type |-> "None"]
           /\ (t.state # "done" /\ t2.state = "done") =>
                 /\ t.must_cancel
                 /\ t2.exc = [type |-> "None"]]_vars

\* two ticks raised, a third was made, and the loop was cancelled
C16_Witness ==
    /\ updater.ticker.state = "done"
    /\ updater.ticker.silenced = 2
    /\ updater.ticker.ticks = 3

\* C17: tick_status issues a fetch only on being notified with the
\* connection live: notified with the connection dead it issues none and
\* waits for the next notification; each status it yields is the answer of
\* one fetch of its own.
C17_NoFetchWhileDisconnected ==
    [][LET c == updater.consumer
           c2 == updater'.consumer
       IN  /\ c2.fetches > c.fetches =>
                 /\ updater.connected
                 /\ c.state = "woken"
                 /\ c2.fetches = c.fetches + 1
           /\ (c.state = "woken" /\ ~updater.connected /\ c2 # c) =>
                 /\ c2.state = "wait"
                 /\ c2.fetches = c.fetches
           /\ c2.yields > c.yields =>
                 /\ c.state = "get_status"
                 /\ c2.yields = c.yields + 1
           /\ c2.yields + c2.retried <= c2.fetches
           /\ c2.fetches <= c2.yields + c2.retried + 1]_vars

\* found dead once, then live: one fetch, one status yielded
C17_Witness ==
    /\ updater.consumer.skipped = 1
    /\ updater.consumer.fetches = 1
    /\ updater.consumer.yields = 1
    /\ updater.consumer.retried = 0

----------------------------------------------------------------------------
\* More properties of wait_until_desired_status and of its watch tasks.

\* C23: with a queue supplied, a name is put on the queue only by the step
\* that finds the task's application with the accepted status, and that
\* step puts it once; the names on the queue are those of the satisfied
\* tasks, one each, and after a normal return every entry of apps is there.
C23_PostedExactlyWhenSatisfied ==
    [][(tasks # <<>> /\ ~call.queue.none) =>
         /\ queue' # queue =>
               \E i \in TaskIds :
                  /\ tasks[i].state = "get_status"
                  /\ tasks'[i].state = "satisfied"
                  /\ ~remote[tasks[i].app].absent
                  /\ remote[tasks[i].app].application.status = "active"
                  /\ queue' = Append(queue, tasks[i].app)
         /\ \A i \in 1..Len(tasks') :
               tasks'[i].posts = IF tasks'[i].state = "satisfied" THEN 1 ELSE 0
         /\ \A a \in AppNames :
               Cardinality({k \in 1..Len(queue') : queue'[k] = a})
                 = Cardinality({i \in 1..Len(tasks') :
                                  tasks'[i].app = a /\ tasks'[i].state = "satisfied"})
         /\ (pc' = "done" /\ outcome' = [none |-> FALSE, val |-> [kind |-> "returned"]]) =>
               Len(queue') = Len(call.apps)]_vars

\* the call has returned with both names on the queue, while a third
\* get_status call was made: one task found its application unsatisfied
\* first and posted nothing then
C23_Witness ==
    /\ pc = "done"
    /\ outcome = Returned
    /\ ~call.queue.none
    /\ Len(queue) = 2
    /\ \E i \in TaskIds : tasks[i].received = 2 /\ tasks[i].posts = 1

\* C26 (as claimed): with a list of unit names given, the unit list of the
\* task of an application holds exactly the given names of the form
\* <application>/<n>.
C26_UnitSubsetIsOwnUnits ==
    \A i \in TaskIds :
        ~tasks[i].unit_list.none =>
            LET app == tasks[i].app
            IN  Range(tasks[i].unit_list.val) =
                  {u \in Range(call.units.val) :
                     /\ Len(u) > Len(app) + 1
                     /\ SubSeq(u, 1, Len(app)) = app
                     /\ u[Len(app) + 1] = "/"}

\* C25: the failure of a watch task cancels no other task and does not end
\* the wait: a task is asked to cancel only by the timeout or by the
\* cancellation of the call, and the outcome of the call is set only with
\* every task terminated, none of them stopped by a cancellation unless the
\* timeout fired or the call was cancelled.
C25_FailureDoesNotEndTheWait ==
    [][/\ \A i \in TaskIds :
            (i \in 1..Len(tasks') /\ ~tasks[i].must_cancel /\ tasks'[i].must_cancel) =>
                pc' \in {"timing_out", "cancelling"}
       /\ (tasks # <<>> /\ outcome.none /\ ~outcome'.none) =>
            /\ \A i \in 1..Len(tasks') :
                  tasks'[i].state \in {"satisfied", "failed", "stopped", "cancelled"}
            /\ (\E i \in 1..Len(tasks') : tasks'[i].state \in {"stopped", "cancelled"}) =>
                  \/ timed_out'
                  \/ outcome'.val.type = "CancelledError"]_vars

\* one task failed at its first poll; the other went on, polled twice and
\* was satisfied; only then did the call raise JujuWaitException
C25_Witness ==
    /\ pc = "done"
    /\ Raises("JujuWaitException")
    /\ \E i \in TaskIds : tasks[i].state = "failed" /\ tasks[i].polls = 1
    /\ \E i \in TaskIds : tasks[i].state = "satisfied" /\ tasks[i].received = 2

\* C24 (as claimed): the call returns normally only if at one moment of the
\* call all the watched applications were in the desired status together.
C24_ReturnsOnlyIfDesiredTogether ==
    (pc = "done" /\ outcome = Returned) => history.together

\* C24 (amended): the call returns normally only if each watched application
\* was in the desired status at some moment of the call, not necessarily
\* the same moment for all of them.
C24_ReturnsOnlyIfEachWasDesired ==
    (pc = "done" /\ outcome = Returned) =>
        \A a \in Range(call.apps) : a \in history.each

\* a normal return with two applications that were never in the desired
\* status together
C24_Witness ==
    /\ pc = "done"
    /\ outcome = Returned
    /\ Len(call.apps) = 2
    /\ ~history.together
    /\ \A i \in TaskIds : tasks[i].state = "satisfied"

\* every watched application is in the desired status in the deployment
AllDesired == \A a \in Range(call.apps) : in_desired_status(call, remote, a)

\* the timeout has not fired, the call was not cancelled, get_model and every
\* fetch were answered, and every task is alive to fetch: none has failed and
\* none is left asleep with the fetches of the run used up
Undisturbed ==
    /\ ~timed_out
    /\ pc \notin {"timing_out", "cancelling"}
    /\ ~Raises("ModelNotFoundException")
    /\ \A i \in TaskIds : tasks[i].state # "failed"
    /\ ~(get_status_calls >= MaxGetStatusCalls
         /\ \E i \in TaskIds : tasks[i].state = "sleep")

\* C22: under fair scheduling, if from some point on every watched
\* application is in the desired status, and every task lives to fetch after
\* that point with the timeout not fired, the call eventually returns
\* normally.
C22_EventuallyReturnsNormally ==
    (<>[]AllDesired /\ []Undisturbed) => <>(pc = "done" /\ outcome = Returned)

\* a normal return after a task that found its application not ready, slept
\* and fetched again
C22_Witness ==
    /\ pc = "done"
    /\ outcome = Returned
    /\ AllDesired
    /\ \E i \in TaskIds : tasks[i].received >= 2

-----------------------------------------------------------------------------
\* wait_units_ready

\* the call is wait_units_ready with names of the form application/id
WaitUnitsReadyOfNames ==
    /\ helper.call.op = "wait_units_ready"
    /\ \A k \in 1..Len(helper.call.units) :
          Cardinality({j \in 1..Len(helper.call.units[k]) :
                         helper.call.units[k][j] = "/"}) = 1

\* every unit the call lists is in the model
EveryUnitInModel == \A u \in Range(helper.call.units) : u \in model_units

\* every unit the call lists is in the model with its agent status and its
\* workload status in the lists the call accepts (["idle"] and ["active"]
\* when it names none)
EveryUnitReady ==
    LET given == helper.call.accepted_status
        agents == IF ~given.none /\ "agent" \in DOMAIN given.val
                  THEN given.val["agent"] ELSE <<"idle">>
        workloads == IF ~given.none /\ "workload" \in DOMAIN given.val
                     THEN given.val["workload"] ELSE <<"active">>
    IN  \A u \in Range(helper.call.units) :
           /\ u \in model_units
           /\ unit_of(u).agent_status \in Range(agents)
           /\ unit_of(u).workload_status \in Range(workloads)

-----------------------------------------------------------------------------
\* The OperationViewer

\* C29: check_operation_succeeded records the result of every step in order,
\* then prints the operation result, which shows the recorded states, and
\* only then raises a click exception; it raises exactly when a result is
\* FAILED and returns normally when none is.
C29_CheckOperationSucceeded ==
    viewer.last.op = "check_operation_succeeded" =>
        LET results == viewer.last.results
            events == viewer.last.events
            n == Len(results)
            failed == \E i \in 1..n : results[i].result_type = "FAILED"
            states == viewer.operation_states
        IN  /\ Len(events) = n + 1 + (IF failed THEN 1 ELSE 0)
            /\ \A i \in 1..n :
                  events[i] = [event |-> "update", name |-> results[i].name]
            /\ events[n + 1].event = "print"
            /\ Len(events[n + 1].text) = Len(viewer.operations)
            /\ \A k \in 1..Len(viewer.operations) :
                  /\ events[n + 1].text[k].step = viewer.operations[k]
                  /\ events[n + 1].text[k].state = states[viewer.operations[k]]
            /\ failed => /\ events[n + 2].event = "raise"
                         /\ viewer.last.outcome.val.kind = "raised"
                         /\ viewer.last.outcome.val.type = "ClickException"
            /\ ~failed => viewer.last.outcome = Returned
            /\ \A i \in 1..n :
                  /\ results[i].name = "EnableHypervisorStep" =>
                        states["EnableHypervisorStep"] =
                           (CASE results[i].result_type = "COMPLETED" -> "SUCCEEDED"
                              [] results[i].result_type = "FAILED" -> "FAILED"
                              [] OTHER -> "SKIPPED")
                  /\ results[i].name = "MicroCephActionStep" =>
                        \A j \in 1..Len(results[i].message.actions) :
                           LET action == results[i].message.actions[j]
                           IN  states[action.id] =
                                  (IF "error" \in DOMAIN action /\ action.error # ""
                                   THEN "FAILED" ELSE "SUCCEEDED")
                  /\ results[i].name = "RunWatcherAuditStep" =>
                        \A j \in 1..Len(results[i].message) :
                           states[get_watcher_action_key(results[i].message[j])]
                              = results[i].message[j].state

\* three results, the first of them FAILED: the two after it are recorded,
\* the result is printed, and the exception is raised
C29_Witness ==
    /\ viewer.last.op = "check_operation_succeeded"
    /\ Len(viewer.last.results) = 3
    /\ viewer.last.results[1].result_type = "FAILED"
    /\ viewer.last.results[3].result_type = "COMPLETED"
    /\ Len(viewer.operations) = 2
    /\ viewer.operation_states["id-1"] = "SUCCEEDED"
    /\ viewer.last.outcome # Returned

\* C30: update_step_result sets the named step to SUCCEEDED for COMPLETED,
\* FAILED for FAILED and SKIPPED otherwise; update_maintenance_action_steps_result
\* sets each reported action to FAILED with an error and SUCCEEDED with none;
\* both leave the other states and the list of operations as they were.
C30_UpdatesSetOnlyTheNamedStates ==
    [][/\ viewer'.last.op = "update_step_result" =>
            LET name == viewer'.last.step_name
                rt == viewer'.last.result.result_type
            IN  /\ viewer'.operations = viewer.operations
                /\ DOMAIN viewer'.operation_states
                     = DOMAIN viewer.operation_states \cup {name}
                /\ viewer'.operation_states[name] =
                     (CASE rt = "COMPLETED" -> "SUCCEEDED"
                        [] rt = "FAILED" -> "FAILED"
                        [] OTHER -> "SKIPPED")
                /\ \A k \in DOMAIN viewer.operation_states \ {name} :
                      viewer'.operation_states[k] = viewer.operation_states[k]
       /\ viewer'.last.op = "update_maintenance_action_steps_result" =>
            LET given == viewer'.last.action_result
                actions == IF "actions" \in DOMAIN given THEN given.actions ELSE <<>>
                ids == {actions[j].id : j \in 1..Len(actions)}
            IN  /\ viewer'.operations = viewer.operations
                /\ DOMAIN viewer'.operation_states
                     = DOMAIN viewer.operation_states \cup ids
                /\ \A j \in 1..Len(actions) :
                      viewer'.operation_states[actions[j].id] =
                         (IF "error" \in DOMAIN actions[j] /\ actions[j].error # ""
                          THEN "FAILED" ELSE "SUCCEEDED")
                /\ \A k \in DOMAIN viewer.operation_states \ ids :
                      viewer'.operation_states[k] = viewer.operation_states[k]]_vars

\* an action result with an error was reported to a viewer that has a
\* watcher action, still PENDING, as its first operation
C30_Witness ==
    /\ viewer.last.op = "update_maintenance_action_steps_result"
    /\ Len(viewer.operations) = 2
    /\ viewer.operation_states[viewer.operations[1]] = "PENDING"
    /\ viewer.operations[2] = "id-1"
    /\ viewer.operation_states["id-1"] = "SUCCEEDED"
    /\ "id-2" \in DOMAIN viewer.operation_states
    /\ viewer.operation_states["id-2"] = "FAILED"

-----------------------------------------------------------------------------
\* The maintenance commands

\* C21 (as claimed): with --force, the run() of every preflight check of
\* enable returns True.
C21_ForcedPreflightChecksReturnTrue ==
    (command.args.cmd = "enable" /\ command.args.force) =>
        \A i \in 1..Len(command.ran) :
           command.ran[i].kind = "preflight" => command.ran[i].returned

\* the operator asked for a dry run, or declined the prompt
NotToProceed ==
    \/ command.args.dry_run
    \/ command.confirm = Some(FALSE)

\* C28: with --dry-run, or with the prompt declined, enable and disable run
\* no step of the operation plan and no post check: what they run is
\* preflight checks and steps of the plan that generates the operations,
\* MicroCephActionStep among them only as a dry run.
C28_NoOperationWithoutConfirmation ==
    NotToProceed =>
        \A i \in 1..Len(command.ran) :
           /\ command.ran[i].kind \in {"preflight", "plan"}
           /\ command.ran[i].name \notin {"RunWatcherAuditStep", "EnableHypervisorStep"}
           /\ command.ran[i].name = "MicroCephActionStep" => command.ran[i].dry_run

\* the prompt was declined on a compute and storage node: the command has
\* returned, the four preflight checks and the two steps of plan generation
\* having run
C28_Witness ==
    /\ command.pc = "done"
    /\ command.outcome = Returned
    /\ command.confirm = Some(FALSE)
    /\ command.args.cmd = "enable"
    /\ Len(command.ran) = 6
    /\ command.ran[6] = Ran("plan", "MicroCephActionStep", TRUE, TRUE)

====
